---- MODULE Spec2Model ----
(***************************************************************************)
(* A model of showorder: the matching stage (main.rs), the text sanitiser  *)
(* (text.rs), the SRT reader (srt.rs), the subtitle iteration and track    *)
(* dispatch (mkv.rs) and the bitmap construction of the PGS and VOB        *)
(* decoders (pgs/image.rs, vob/mod.rs).                                    *)
(*                                                                         *)
(* Strings are sequences of Unicode scalar values (code points); a file    *)
(* path is a small integer, distinct per file.                             *)
(***************************************************************************)
EXTENDS Integers, Sequences, FiniteSets, TLC

VARIABLES
    component,          \* which part of the program this behaviour exercises
    pc,                 \* position of the running operation
    \* ---- match run (main.rs) ----
    cli_max,            \* value given to -m/--max on the command line, or None
    num_subtitles,      \* value given to -n/--max-count
    max_distance,       \* the max_distance parameter of match_subtitles
    subtitles,          \* flattened input fingerprints: sequence of <<file, text>>
    ref_subtitles,      \* flattened reference fingerprints: sequence of <<file, text>>
    lev_calls,          \* argument pairs handed to levenshtein, in call order
    distances,          \* HashMap file -> Vec<(ref_file, distance)>
    mappings,           \* Vec<(mkv_path, ref_file)>
    seen_ref_files,     \* HashMap ref_file -> count
    duplicates,         \* Vec<(ref_file, count)>
    unmapped,           \* HashSet<ref_file>
    is_high_confidence,
    printed,            \* what the run has printed: set of section names
    \* ---- text sanitiser (text.rs) ----
    text,               \* the argument of sanitize_text
    sanitized,          \* sanitize_text(text)
    resanitized,        \* sanitize_text(sanitize_text(text))
    \* ---- per-file readers (srt.rs, mkv.rs) ----
    srt_data,           \* content of the reference file, as chars
    track_infos,        \* MkvFile::track_infos, in discovery order
    track_number,       \* the -t/--track option: None or Some(number)
    blocks,             \* the Block/SimpleBlock elements after the tracks prelude
    block_pos,          \* how many of them the WebmIterator has read
    iter,               \* the SubtitleIterator: None or Some(its track_info)
    decoded_with,       \* the decoder run on each block the iterator took, in order
    collected,          \* the Vec<String> `subtitles` a reader is filling
    \* ---- bitmap decoders (pgs/image.rs, vob/mod.rs) ----
    frame,              \* what a decoder is given: the codec, the size, the coded image
    decoded,            \* VOB: what decode_block returns, None or Some(<<bytes, w, h>>)
    bitmap,             \* the SoftwareBitmap returned: None or Some([width, height, pixels])
    \* ---- functions checked on their own ----
    args,               \* the arguments a function is called with
    returned,           \* what it returned: None before the call, Some(value) after
    \* ---- the parallel per-file tasks (main.rs) ----
    tasks,              \* per file of the directory, where its task is and what it holds
    finished,           \* the files whose tasks have ended, in the order they ended
    \* ---- the decode of one VOB block, step by step (vob/mod.rs) ----
    reader,             \* position of the Cursor over block_data
    sequence,           \* the command sequence being read: its position and what it has set
    nibble_reader,      \* NibbleReader::pos of the field being decoded
    field_pixels,       \* the pixels decode_image has pushed for that field
    fields,             \* the byte vectors of the fields decoded so far
    interlaced,         \* `bytes` of interlace_image
    line_index          \* the index of the field line interlace_image is at

matchVars == <<cli_max, max_distance, subtitles, ref_subtitles, lev_calls,
               distances, mappings, seen_ref_files, duplicates, unmapped,
               is_high_confidence, printed>>
textVars == <<text, sanitized, resanitized>>
fileVars == <<srt_data, track_infos, track_number, blocks, block_pos, iter, decoded_with,
              collected>>

bitmapVars == <<frame, decoded, bitmap>>

callVars == <<args, returned>>
taskVars == <<tasks, finished>>
vobVars == <<reader, sequence, nibble_reader, field_pixels, fields, interlaced, line_index>>

vars == <<component, pc, num_subtitles, matchVars, textVars, fileVars, bitmapVars, callVars,
          taskVars, vobVars>>

\* Option<T>: None is the empty sequence, Some(x) the one-element sequence.
None == <<>>
Some(x) == <<x>>

Min(a, b) == IF a <= b THEN a ELSE b

(***************************************************************************)
(* Strings                                                                 *)
(***************************************************************************)

\* Number of bytes of the UTF-8 encoding of one scalar value (str::len counts these).
Utf8Len(c) == IF c < 128 THEN 1 ELSE IF c < 2048 THEN 2 ELSE IF c < 65536 THEN 3 ELSE 4

RECURSIVE ByteLen(_)
\* str::len: the length of a string in bytes.
ByteLen(s) == IF s = <<>> THEN 0 ELSE Utf8Len(Head(s)) + ByteLen(Tail(s))

\* The first n scalars of s.
Take(s, n) == SubSeq(s, 1, Min(n, Len(s)))

\* str::is_char_boundary: byte offset n falls between two scalars of s.
IsCharBoundary(s, n) == \E k \in 0..Len(s) : ByteLen(Take(s, k)) = n

\* &s[0..n] for a byte offset n that is a char boundary.
ByteSlice(s, n) == Take(s, CHOOSE k \in 0..Len(s) : ByteLen(Take(s, k)) = n)

RECURSIVE levenshtein(_, _)
\* levenshtein::levenshtein: classical edit distance over the chars of a and b.
levenshtein(a, b) ==
    IF a = <<>> THEN Len(b)
    ELSE IF b = <<>> THEN Len(a)
    ELSE LET sub == levenshtein(Tail(a), Tail(b)) + (IF Head(a) = Head(b) THEN 0 ELSE 1)
             del == levenshtein(Tail(a), b) + 1
             ins == levenshtein(a, Tail(b)) + 1
         IN  Min(sub, Min(del, ins))

\* string.rs, substring: the first len chars of string; char_indices().nth(len)
\* is None, and the unwrap panics, when string has no char number len.
substring(string, len) == Take(string, len)

\* string.rs, normalize_to_shortest_string (main.rs does not call it): the
\* lengths it compares are the index of the last char, one less than the count;
\* it panics on an empty string.
normalize_to_shortest_string(string1, string2) ==
    LET string1_len == Len(string1) - 1
        string2_len == Len(string2) - 1
        len == Min(string1_len, string2_len)
    IN  << IF string1_len = len THEN string1 ELSE substring(string1, len),
           IF string2_len = len THEN string2 ELSE substring(string2, len) >>

(***************************************************************************)
(* The matching stage: main.rs                                             *)
(***************************************************************************)

\* Largest number of input files and of reference files of a run.
MaxInputs == 2
MaxRefs == 3
\* Largest value given to -m on the command line.
MaxCliDistance == 1

\* Fingerprint texts of the runs: "a", "ab", "é" (é is two bytes in UTF-8).
TextPool == { <<97>>, <<97, 98>>, <<233>> }

MkvPath(i) == <<"mkv", i>>
SrtPath(j) == <<"srt", j>>

\* main: `matches.value_of("min distance")` names an argument the App never
\* defines ("max distance" is the defined one); clap answers None for it.
ParseMaxDistance(given) == None

\* compute_distances, one pair: the slice length, in bytes.
NormalizedLength(subtitle, ref_subtitle) == Min(ByteLen(subtitle), ByteLen(ref_subtitle))

\* compute_distances, one pair: a str slice at a non-boundary offset panics.
SlicePanics(subtitle, ref_subtitle) ==
    LET length == NormalizedLength(subtitle, ref_subtitle)
    IN  ~IsCharBoundary(subtitle, length) \/ ~IsCharBoundary(ref_subtitle, length)

\* The two strings as they are, neither cut to the shorter length.
WholePair(subtitle, ref_subtitle) == <<subtitle, ref_subtitle>>

\* compute_distances, one pair: the two strings handed to levenshtein.
NormalizedPair(subtitle, ref_subtitle) ==
    LET length == NormalizedLength(subtitle, ref_subtitle)
    IN  <<ByteSlice(subtitle, length), ByteSlice(ref_subtitle, length)>>

\* The k-th iteration of the nested loops of compute_distances: <<input, reference>>.
PairAt(k, nrefs) == <<((k - 1) \div nrefs) + 1, ((k - 1) % nrefs) + 1>>

\* The iterations of compute_distances that slice off a char boundary.
PanickingPairs(subs, refs) ==
    { k \in 1..(Len(subs) * Len(refs)) :
        SlicePanics(subs[PairAt(k, Len(refs))[1]][2], refs[PairAt(k, Len(refs))[2]][2]) }

\* Number of iterations compute_distances completes (all of them when none panics).
CompletedPairs(subs, refs) ==
    IF PanickingPairs(subs, refs) = {} THEN Len(subs) * Len(refs)
    ELSE (CHOOSE k \in PanickingPairs(subs, refs) :
            \A k2 \in PanickingPairs(subs, refs) : k <= k2) - 1

\* The levenshtein calls compute_distances makes, in order.
LevCalls(subs, refs) ==
    [ k \in 1..CompletedPairs(subs, refs) |->
        LET i == PairAt(k, Len(refs))[1]
            j == PairAt(k, Len(refs))[2]
            pair == NormalizedPair(subs[i][2], refs[j][2])
        IN  [ file |-> subs[i][1], ref_file |-> refs[j][1],
              subtitle |-> subs[i][2], ref_subtitle |-> refs[j][2],
              a |-> pair[1], b |-> pair[2] ] ]

RECURSIVE InsertSortedUnstable(_, _)
\* InsertSorted as an unstable sort would do it: e goes before entries of equal distance.
InsertSortedUnstable(sorted, e) ==
    IF sorted = <<>> THEN <<e>>
    ELSE IF Head(sorted)[2] < e[2]
         THEN <<Head(sorted)>> \o InsertSortedUnstable(Tail(sorted), e)
         ELSE <<e>> \o sorted

RECURSIVE InsertSorted(_, _)
\* One step of the stable sort: e goes after every entry whose distance is <= its own.
InsertSorted(sorted, e) ==
    IF sorted = <<>> THEN <<e>>
    ELSE IF Head(sorted)[2] <= e[2]
         THEN <<Head(sorted)>> \o InsertSorted(Tail(sorted), e)
         ELSE <<e>> \o sorted

RECURSIVE sort_by(_)
\* file_distances.sort_by(|(_, d1), (_, d2)| d1.cmp(d2)): slice::sort_by is stable.
sort_by(v) ==
    IF v = <<>> THEN <<>>
    ELSE InsertSorted(sort_by(SubSeq(v, 1, Len(v) - 1)), v[Len(v)])

\* compute_distances when no iteration panics: the map file -> sorted matches.
\* With no reference the inner loop never runs and no key is inserted.
compute_distances(subs, refs) ==
    [ file \in (IF refs = <<>> THEN {} ELSE { subs[i][1] : i \in 1..Len(subs) }) |->
        LET i == CHOOSE i \in 1..Len(subs) : subs[i][1] = file
        IN  sort_by([ j \in 1..Len(refs) |->
                        LET pair == NormalizedPair(subs[i][2], refs[j][2])
                        IN  <<refs[j][1], levenshtein(pair[1], pair[2])>> ]) ]

\* match_subtitles, the mapping loop: does this input enter the mappings?
Add(distance, max) == IF max # None THEN distance < max[1] ELSE TRUE

RECURSIVE MapLoop(_, _, _, _, _)
\* match_subtitles, the mapping loop over the HashMap `distances`, visited in
\* `order`: <<mappings, seen_ref_files>> after the loop.
MapLoop(order, dist, max, maps, seen) ==
    IF order = <<>> THEN <<maps, seen>>
    ELSE LET mkv_path == Head(order)
             ref_file == dist[mkv_path][1][1]
             distance == dist[mkv_path][1][2]
             count    == IF ref_file \in DOMAIN seen THEN seen[ref_file] ELSE 0
         IN  IF Add(distance, max)
             THEN MapLoop(Tail(order), dist, max,
                          Append(maps, <<mkv_path, ref_file>>),
                          [ r \in DOMAIN seen \cup {ref_file} |->
                              IF r = ref_file THEN count + 1 ELSE seen[r] ])
             ELSE MapLoop(Tail(order), dist, max, maps, seen)

\* seen_ref_files.get(ref_file).unwrap_or(&0)
SeenCount(seen, ref_file) == IF ref_file \in DOMAIN seen THEN seen[ref_file] ELSE 0

\* match_subtitles: the reference files no input picked.
Unmapped(refs, seen) ==
    { refs[j][1] : j \in { j \in 1..Len(refs) : SeenCount(seen, refs[j][1]) = 0 } }

\* IsDuplicateCount with the comparison off by one.
IsDuplicateCountFromOne(count) == count >= 1

\* match_subtitles: is this count one of a reference mapped more than once?
IsDuplicateCount(count) == count > 1

RECURSIVE Duplicates(_, _)
\* match_subtitles: the reference files picked more than once, with their counts.
Duplicates(refs, seen) ==
    IF refs = <<>> THEN <<>>
    ELSE LET count == SeenCount(seen, Head(refs)[1])
         IN  (IF IsDuplicateCount(count) THEN << <<Head(refs)[1], count>> >> ELSE <<>>)
             \o Duplicates(Tail(refs), seen)

\* Every order in which a HashMap with these keys can be iterated.
Orders(keys) ==
    { o \in [1..Cardinality(keys) -> keys] : \A a, b \in DOMAIN o : a # b => o[a] # o[b] }

\* The variables of the text sanitiser, in a behaviour that does not run it.
TextIdle == text = <<>> /\ sanitized = <<>> /\ resanitized = <<>>

\* The variables of the per-file readers, in a behaviour that does not run them.
FileIdle ==
    /\ srt_data = <<>> /\ track_infos = <<>> /\ track_number = None /\ blocks = <<>>
    /\ block_pos = 0 /\ iter = None /\ decoded_with = <<>> /\ collected = <<>>

\* The variables of the bitmap decoders, in a behaviour that does not run them.
BitmapIdle == frame = <<>> /\ decoded = None /\ bitmap = None

\* The variables of a single function call, in a behaviour that makes none.
CallIdle == args = <<>> /\ returned = None

\* The variables of the per-file tasks, in a behaviour that runs none.
TaskIdle == tasks = <<>> /\ finished = <<>>
VobIdle ==
    /\ reader = 0 /\ sequence = None /\ nibble_reader = 0
    /\ field_pixels = <<>> /\ fields = <<>>
    /\ interlaced = <<>> /\ line_index = 0

InitMatch ==
    /\ component = "match"
    /\ pc = "main"
    /\ cli_max \in {None} \cup { Some(m) : m \in 0..MaxCliDistance }
    /\ num_subtitles = 5
    /\ max_distance = None
    /\ \E n \in 0..MaxInputs : \E texts \in [1..n -> TextPool] :
          subtitles = [ i \in 1..n |-> <<MkvPath(i), texts[i]>> ]
    /\ \E m \in 0..MaxRefs : \E texts \in [1..m -> TextPool] :
          ref_subtitles = [ j \in 1..m |-> <<SrtPath(j), texts[j]>> ]
    /\ lev_calls = <<>>
    /\ distances = <<>>
    /\ mappings = <<>>
    /\ seen_ref_files = <<>>
    /\ duplicates = <<>>
    /\ unmapped = {}
    /\ is_high_confidence = FALSE
    /\ printed = {}
    /\ TextIdle
    /\ FileIdle
    /\ BitmapIdle
    /\ CallIdle
    /\ TaskIdle
    /\ VobIdle

\* main -> match_subtitles, up to the loading of both paths (lines 81-314).
Main ==
    /\ component = "match" /\ pc = "main"
    /\ max_distance' = ParseMaxDistance(cli_max)
    /\ IF subtitles = <<>>
       THEN /\ printed' = {"No English subtitles found!"}
            /\ pc' = "done"
       ELSE /\ printed' = printed
            /\ pc' = "loaded"
    /\ UNCHANGED <<textVars, fileVars, bitmapVars, callVars, taskVars, vobVars>>
    /\ UNCHANGED <<component, num_subtitles, cli_max, subtitles, ref_subtitles, lev_calls,
                   distances, mappings, seen_ref_files, duplicates, unmapped,
                   is_high_confidence>>

\* match_subtitles: compute_distances (lines 318, 562-591), sort included.
CompareSubtitles ==
    /\ component = "match" /\ pc = "loaded"
    /\ lev_calls' = LevCalls(subtitles, ref_subtitles)
    /\ IF PanickingPairs(subtitles, ref_subtitles) # {}
       THEN /\ pc' = "panicked"
            /\ UNCHANGED distances
       ELSE /\ pc' = "compared"
            /\ distances' = compute_distances(subtitles, ref_subtitles)
    /\ UNCHANGED <<textVars, fileVars, bitmapVars, callVars, taskVars, vobVars>>
    /\ UNCHANGED <<component, num_subtitles, cli_max, max_distance, subtitles,
                   ref_subtitles, mappings, seen_ref_files, duplicates, unmapped,
                   is_high_confidence, printed>>

\* match_subtitles: the mapping loop (lines 326-343).
MapFiles ==
    /\ component = "match" /\ pc = "compared"
    /\ \E order \in Orders(DOMAIN distances) :
          LET r == MapLoop(order, distances, max_distance, <<>>, <<>>)
          IN  /\ mappings' = r[1]
              /\ seen_ref_files' = r[2]
    /\ pc' = "mapped"
    /\ UNCHANGED <<textVars, fileVars, bitmapVars, callVars, taskVars, vobVars>>
    /\ UNCHANGED <<component, num_subtitles, cli_max, max_distance, subtitles,
                   ref_subtitles, lev_calls, distances, duplicates, unmapped,
                   is_high_confidence, printed>>

\* match_subtitles: duplicates, unmapped and the verdict (lines 345-360).
CheckDuplicates ==
    /\ component = "match" /\ pc = "mapped"
    /\ duplicates' = Duplicates(ref_subtitles, seen_ref_files)
    /\ unmapped' = Unmapped(ref_subtitles, seen_ref_files)
    /\ is_high_confidence' = (Duplicates(ref_subtitles, seen_ref_files) = <<>>)
    /\ pc' = "classified"
    /\ UNCHANGED <<textVars, fileVars, bitmapVars, callVars, taskVars, vobVars>>
    /\ UNCHANGED <<component, num_subtitles, cli_max, max_distance, subtitles,
                   ref_subtitles, lev_calls, distances, mappings, seen_ref_files, printed>>

\* match_subtitles: the output (lines 362-372).
Output ==
    /\ component = "match" /\ pc = "classified"
    /\ printed' = {"Results:", "Final mapping:"}
                  \cup (IF unmapped # {} THEN {"Unmapped reference files:"} ELSE {})
                  \cup (IF is_high_confidence
                        THEN {"(High Confidence) ", "Rename script:"} ELSE {})
    /\ pc' = "done"
    /\ UNCHANGED <<textVars, fileVars, bitmapVars, callVars, taskVars, vobVars>>
    /\ UNCHANGED <<component, num_subtitles, cli_max, max_distance, subtitles,
                   ref_subtitles, lev_calls, distances, mappings, seen_ref_files,
                   duplicates, unmapped, is_high_confidence>>

NextMatch == Main \/ CompareSubtitles \/ MapFiles \/ CheckDuplicates \/ Output

SpecMatch == InitMatch /\ [][NextMatch]_vars

(***************************************************************************)
(* The text sanitiser: text.rs                                             *)
(***************************************************************************)

\* "caption", "subtitle", "subbed", "corrections by", "corrected by", "correction by"
BANNED_WORDS == {
    <<99, 97, 112, 116, 105, 111, 110>>,
    <<115, 117, 98, 116, 105, 116, 108, 101>>,
    <<115, 117, 98, 98, 101, 100>>,
    <<99, 111, 114, 114, 101, 99, 116, 105, 111, 110, 115, 32, 98, 121>>,
    <<99, 111, 114, 114, 101, 99, 116, 101, 100, 32, 98, 121>>,
    <<99, 111, 114, 114, 101, 99, 116, 105, 111, 110, 32, 98, 121>> }

\* char::to_lowercase on the chars the model uses: A-Z, and É (201) to é (233).
LowerChar(c) == IF c >= 65 /\ c <= 90 THEN c + 32 ELSE IF c = 201 THEN 233 ELSE c

\* str::to_lowercase
to_lowercase(s) == [ i \in 1..Len(s) |-> LowerChar(s[i]) ]

\* str::contains
contains(s, sub) ==
    \E i \in 0..(Len(s) - Len(sub)) : SubSeq(s, i + 1, i + Len(sub)) = sub

\* ContainsAny::contains_any
contains_any(s, substrings) == \E sub \in substrings : contains(s, sub)

\* Position of the first `close` after position i with no newline before it, or 0:
\* where the lazy `.*?` of the patterns <.*?>, \[.*?\] and \(.*?\) stops
\* ('.' does not match '\n').
LazyEnd(s, i, close) ==
    LET ends == { j \in (i + 1)..Len(s) :
                    /\ s[j] = close
                    /\ \A k \in (i + 1)..(j - 1) : s[k] # 10 /\ s[k] # close }
    IN  IF ends = {} THEN 0 ELSE CHOOSE j \in ends : TRUE

RECURSIVE RemoveEnclosed(_, _, _, _)
\* regex_remove of `open.*?close` from position i on: leftmost matches, replaced by "".
RemoveEnclosed(s, i, open, close) ==
    IF i > Len(s) THEN <<>>
    ELSE IF s[i] = open /\ LazyEnd(s, i, close) # 0
         THEN RemoveEnclosed(s, LazyEnd(s, i, close) + 1, open, close)
         ELSE <<s[i]>> \o RemoveEnclosed(s, i + 1, open, close)

\* The class [A-Za-z] of the documented speaker-label pattern.
IsAsciiLetter(c) == (c >= 65 /\ c <= 90) \/ (c >= 97 /\ c <= 122)

\* The character class of the speaker-label pattern r"[A-z]+:": the code point
\* range 'A'..'z', which also holds [ \ ] ^ _ and the backquote (91..96).
InLabelClass(c) == c >= 65 /\ c <= 122

RECURSIVE RunEnd(_, _)
\* Last position of the maximal run of label-class chars that starts at i.
RunEnd(s, i) ==
    IF i < Len(s) /\ InLabelClass(s[i + 1]) THEN RunEnd(s, i + 1) ELSE i

RECURSIVE RemoveLabels(_, _)
\* regex_remove(r"[A-z]+:") from position i on: a greedy run followed by ':'.
RemoveLabels(s, i) ==
    IF i > Len(s) THEN <<>>
    ELSE IF InLabelClass(s[i]) /\ RunEnd(s, i) < Len(s) /\ s[RunEnd(s, i) + 1] = 58
         THEN RemoveLabels(s, RunEnd(s, i) + 2)
         ELSE <<s[i]>> \o RemoveLabels(s, i + 1)

\* char::is_ascii_punctuation
is_ascii_punctuation(c) ==
    \/ (c >= 33 /\ c <= 47) \/ (c >= 58 /\ c <= 64)
    \/ (c >= 91 /\ c <= 96) \/ (c >= 123 /\ c <= 126)

\* RemovePunctuation::remove_punctuation
remove_punctuation(s) == SelectSeq(s, LAMBDA c : ~is_ascii_punctuation(c))

\* char::is_whitespace, on the code points below 256.
is_whitespace(c) == (c >= 9 /\ c <= 13) \/ c = 32 \/ c = 133 \/ c = 160

\* str::trim
trim(s) ==
    LET keep == { i \in 1..Len(s) : ~is_whitespace(s[i]) }
    IN  IF keep = {} THEN <<>>
        ELSE SubSeq(s, CHOOSE i \in keep : \A j \in keep : i <= j,
                       CHOOSE i \in keep : \A j \in keep : i >= j)

\* text.rs, sanitize_text
sanitize_text(t) ==
    LET lowered == to_lowercase(t)
    IN  IF contains_any(lowered, BANNED_WORDS) THEN <<>>
        ELSE trim(remove_punctuation(
                RemoveLabels(
                    RemoveEnclosed(
                        RemoveEnclosed(
                            RemoveEnclosed(lowered, 1, 60, 62),
                            1, 91, 93),
                        1, 40, 41),
                    1)))

\* Largest number of fragments an argument of sanitize_text is made of.
MaxFragments == 3

\* The fragments: "sub", "bed", ".", " ", "<i>", "a_b:", "Hi", "[x]".
Fragments == { <<115, 117, 98>>, <<98, 101, 100>>, <<46>>, <<32>>, <<60, 105, 62>>,
               <<97, 95, 98, 58>>, <<72, 105>>, <<91, 120, 93>> }

RECURSIVE Concat(_)
Concat(parts) == IF parts = <<>> THEN <<>> ELSE Head(parts) \o Concat(Tail(parts))

\* The variables of the match run, in a behaviour that does not run it.
MatchIdle ==
    /\ cli_max = None /\ max_distance = None
    /\ subtitles = <<>> /\ ref_subtitles = <<>> /\ lev_calls = <<>>
    /\ distances = <<>> /\ mappings = <<>> /\ seen_ref_files = <<>>
    /\ duplicates = <<>> /\ unmapped = {} /\ is_high_confidence = FALSE
    /\ printed = {}

InitText ==
    /\ component = "text"
    /\ pc = "start"
    /\ num_subtitles = 0
    /\ \E n \in 0..MaxFragments : \E parts \in [1..n -> Fragments] : text = Concat(parts)
    /\ sanitized = <<>>
    /\ resanitized = <<>>
    /\ MatchIdle
    /\ FileIdle
    /\ BitmapIdle
    /\ CallIdle
    /\ TaskIdle
    /\ VobIdle

\* A caller sanitises a text (mkv.rs:465, srt.rs:18).
Sanitize ==
    /\ component = "text" /\ pc = "start"
    /\ sanitized' = sanitize_text(text)
    /\ pc' = "sanitized"
    /\ UNCHANGED <<component, num_subtitles, text, resanitized, matchVars, fileVars, bitmapVars, callVars, taskVars, vobVars>>

\* The sanitised text is sanitised once more.
SanitizeAgain ==
    /\ component = "text" /\ pc = "sanitized"
    /\ resanitized' = sanitize_text(sanitized)
    /\ pc' = "resanitized"
    /\ UNCHANGED <<component, num_subtitles, text, sanitized, matchVars, fileVars, bitmapVars, callVars, taskVars, vobVars>>

NextText == Sanitize \/ SanitizeAgain

SpecText == InitText /\ [][NextText]_vars

(***************************************************************************)
(* Reference files: srt.rs                                                 *)
(***************************************************************************)

\* Does `pat` occur in `s` starting at index i (1-based)?
MatchesAt(s, pat, i) == i + Len(pat) - 1 <= Len(s) /\ SubSeq(s, i, i + Len(pat) - 1) = pat

\* str::replace: every non-overlapping occurrence of `from`, left to right.
RECURSIVE replace(_, _, _)
replace(s, from, to) ==
    IF s = <<>> THEN <<>>
    ELSE IF MatchesAt(s, from, 1)
         THEN to \o replace(SubSeq(s, Len(from) + 1, Len(s)), from, to)
         ELSE <<Head(s)>> \o replace(Tail(s), from, to)

\* Index of the first occurrence of `sep` in `s` at or after i, or 0.
RECURSIVE find(_, _, _)
find(s, sep, i) ==
    IF i + Len(sep) - 1 > Len(s) THEN 0
    ELSE IF MatchesAt(s, sep, i) THEN i ELSE find(s, sep, i + 1)

\* str::split: the pieces between non-overlapping separators, empty pieces kept.
RECURSIVE split(_, _)
split(s, sep) ==
    LET at == find(s, sep, 1)
    IN IF at = 0 THEN <<s>>
       ELSE <<SubSeq(s, 1, at - 1)>> \o split(SubSeq(s, at + Len(sep), Len(s)), sep)

\* str::splitn(n, sep): like split, the n-th piece taking all the rest.
RECURSIVE splitn(_, _, _)
splitn(n, s, sep) ==
    LET at == find(s, sep, 1)
    IN IF n = 0 THEN <<>>
       ELSE IF n = 1 \/ at = 0 THEN <<s>>
       ELSE <<SubSeq(s, 1, at - 1)>>
            \o splitn(n - 1, SubSeq(s, at + Len(sep), Len(s)), sep)

LF == <<10>>
CRLF == <<13, 10>>

\* The loop of parse_n_subtitles over the chunks from index i on; `acc` is the
\* vector so far.  The result is the vector, or a panic of the unwrap.
RECURSIVE ParseChunks(_, _, _, _)
ParseChunks(chunks, i, acc, n) ==
    IF i > Len(chunks) THEN [panic |-> FALSE, subtitles |-> acc]
    ELSE IF chunks[i] = <<>> THEN ParseChunks(chunks, i + 1, acc, n)
    ELSE LET parts == splitn(3, chunks[i], LF)
         IN IF Len(parts) < 3 THEN [panic |-> TRUE, subtitles |-> acc]
            ELSE LET cue == sanitize_text(replace(parts[3], LF, <<32>>))
                 IN IF cue = <<>> THEN ParseChunks(chunks, i + 1, acc, n)
                    ELSE IF Len(acc) + 1 >= n
                         THEN [panic |-> FALSE, subtitles |-> Append(acc, cue)]
                         ELSE ParseChunks(chunks, i + 1, Append(acc, cue), n)

parse_n_subtitles(data, n) ==
    ParseChunks(split(replace(data, CRLF, LF), <<10, 10>>), 1, <<>>, n)

(***************************************************************************)
(* Input files: mkv.rs                                                     *)
(***************************************************************************)

\* TrackInfo.  The language is KnownLanguage::English or another, the encoding
\* KnownEncoding::PGS, ::VOB or another.
TrackInfo(number, language, encoding) ==
    [track_number |-> number, language |-> language, encoding |-> encoding]

\* A block: its track, what pgs::parse_segments makes of its payload
\* ("bitmap", "none" for Ok(None), "error" for Err) and what the OCR engine
\* makes of that bitmap (None for an Err, Some(text) otherwise).
Block(track, parsed, ocr) == [track |-> track, parsed |-> parsed, ocr |-> ocr]

\* The first element of `infos` that is one of `wanted`.
RECURSIVE FirstTrack(_, _, _)
FirstTrack(infos, wanted, track) ==
    IF infos = <<>> THEN track
    ELSE IF Head(infos) \in wanted THEN Some(Head(infos))
    ELSE FirstTrack(Tail(infos), wanted, track)

\* The last element of `infos` that is one of `wanted`, as the loops of
\* subtitle_iter and subtitle_iter_from_track_number leave it in `track`.
RECURSIVE LastTrack(_, _, _)
LastTrack(infos, wanted, track) ==
    IF infos = <<>> THEN track
    ELSE LastTrack(Tail(infos), wanted,
                   IF Head(infos) \in wanted THEN Some(Head(infos)) ELSE track)

Tracks(infos) == { infos[i] : i \in 1..Len(infos) }

subtitle_iter_from_track_info(track_info) ==
    IF track_info.encoding = "PGS" THEN Some(track_info) ELSE None

subtitle_iter(infos, language) ==
    LET track == LastTrack(infos, {t \in Tracks(infos) : t.language = language}, None)
    IN IF track # None THEN subtitle_iter_from_track_info(track[1]) ELSE None

subtitle_iter_from_track_number(infos, number) ==
    LET track == LastTrack(infos, {t \in Tracks(infos) : t.track_number = number}, None)
    IN IF track # None THEN subtitle_iter_from_track_info(track[1]) ELSE None

\* decode_bitmap: the decoder it runs for a track, and what comes out.
DecoderFor(track_info) == IF track_info.encoding = "PGS" THEN "pgs::parse_segments" ELSE "none"

decode_bitmap(block, track_info) ==
    IF track_info.encoding = "PGS" THEN block.parsed ELSE "none"

\* SubtitleIterator::next from stream position `pos`: blocks of other tracks
\* are passed over by BlockIterator::next, a block without a bitmap is passed
\* over here, a block that fails to decode panics the unwrap.  `took` lists
\* the positions of the blocks handed to decode_bitmap.
RECURSIVE SubtitleIteratorNext(_, _, _, _)
SubtitleIteratorNext(stream, pos, track_info, took) ==
    IF pos >= Len(stream) THEN [status |-> "end", pos |-> pos, took |-> took]
    ELSE LET block == stream[pos + 1]
         IN IF block.track # track_info.track_number
            THEN SubtitleIteratorNext(stream, pos + 1, track_info, took)
            ELSE LET result == decode_bitmap(block, track_info)
                     seen == Append(took, pos + 1)
                 IN CASE result = "error" -> [status |-> "panic", pos |-> pos + 1, took |-> seen]
                      [] result = "none"  -> SubtitleIteratorNext(stream, pos + 1, track_info, seen)
                      [] OTHER            -> [status |-> "some", pos |-> pos + 1, took |-> seen]

\* process_bitmap on the bitmap of `block`: Err, or Ok of an Option<String>.
process_bitmap(block) ==
    IF block.ocr = None THEN [err |-> TRUE, text |-> None]
    ELSE LET trimmed == trim(block.ocr[1])
         IN IF trimmed # <<>> /\ sanitize_text(trimmed) # <<>>
            THEN [err |-> FALSE, text |-> Some(sanitize_text(trimmed))]
            ELSE [err |-> FALSE, text |-> None]

\* Bounds of the per-file readers.
MaxCount == 2
MaxSrtParts == 3
MaxBlocks == 3
MaxTracks == 2

\* Pieces of reference files: the cues "1\n0\nHi", "1\n0\n[x]" (no text left
\* after sanitising), "1\n0\na\nb" (two text lines) and "1\n0" (no text line),
\* the blank-line separators "\n\n" and "\r\n\r\n", and a lone "\n".
SrtFragments == { <<49, 10, 48, 10, 72, 105>>, <<49, 10, 48, 10, 91, 120, 93>>,
                  <<49, 10, 48, 10, 97, 10, 98>>, <<49, 10, 48>>,
                  <<10, 10>>, <<13, 10, 13, 10>>, <<10>> }

\* Frames of a subtitle track: bitmaps the OCR engine reads as "Hi", "a", " "
\* and "[x]", a bitmap it fails on, a block without a bitmap and a block that
\* does not decode.
FramePool == { Block(1, "bitmap", Some(<<72, 105>>)), Block(1, "bitmap", Some(<<97>>)),
               Block(1, "bitmap", Some(<<32>>)), Block(1, "bitmap", Some(<<91, 120, 93>>)),
               Block(1, "bitmap", None), Block(1, "none", None), Block(1, "error", None) }

Languages == { "English", "Other" }
Encodings == { "PGS", "VOB", "Other" }

InitSrt ==
    /\ component = "srt"
    /\ pc = "start"
    /\ num_subtitles \in 0..MaxCount
    /\ \E n \in 0..MaxSrtParts : \E parts \in [1..n -> SrtFragments] :
           srt_data = Concat(parts)
    /\ track_infos = <<>> /\ track_number = None /\ blocks = <<>> /\ block_pos = 0
    /\ iter = None /\ decoded_with = <<>> /\ collected = <<>>
    /\ MatchIdle
    /\ TextIdle
    /\ BitmapIdle
    /\ CallIdle
    /\ TaskIdle
    /\ VobIdle

\* An input file with one English PGS track and any frames from the pool.
InitFrames ==
    /\ component = "mkv"
    /\ pc = "start"
    /\ num_subtitles \in 0..MaxCount
    /\ srt_data = <<>>
    /\ track_infos = <<TrackInfo(1, "English", "PGS")>>
    /\ track_number = None
    /\ \E n \in 0..MaxBlocks : blocks \in [1..n -> FramePool]
    /\ block_pos = 0 /\ iter = None /\ decoded_with = <<>> /\ collected = <<>>
    /\ MatchIdle
    /\ TextIdle
    /\ BitmapIdle
    /\ CallIdle
    /\ TaskIdle
    /\ VobIdle

\* An input file with any subtitle tracks, numbered in discovery order, any
\* -t option, and blocks of those tracks that all decode and read as "Hi".
InitTracks ==
    /\ component = "mkv"
    /\ pc = "start"
    /\ num_subtitles = MaxCount
    /\ srt_data = <<>>
    /\ \E n \in 0..MaxTracks :
         \E langs \in [1..n -> Languages] : \E encs \in [1..n -> Encodings] :
            track_infos = [i \in 1..n |-> TrackInfo(i, langs[i], encs[i])]
    /\ track_number \in {None} \cup {Some(t) : t \in 1..MaxTracks}
    /\ \E n \in 0..MaxTracks : \E ts \in [1..n -> 1..MaxTracks] :
            blocks = [i \in 1..n |-> Block(ts[i], "bitmap", Some(<<72, 105>>))]
    /\ block_pos = 0 /\ iter = None /\ decoded_with = <<>> /\ collected = <<>>
    /\ MatchIdle
    /\ TextIdle
    /\ BitmapIdle
    /\ CallIdle
    /\ TaskIdle
    /\ VobIdle

\* process_reference_path reads one .srt file (main.rs:442-485, srt.rs:5-28).
ParseNSubtitles ==
    /\ component = "srt" /\ pc = "start"
    /\ LET r == parse_n_subtitles(srt_data, num_subtitles)
       IN /\ collected' = r.subtitles
          /\ pc' = IF r.panic THEN "panicked" ELSE "done"
    /\ UNCHANGED <<component, num_subtitles, srt_data, track_infos, track_number, blocks,
                   block_pos, iter, decoded_with, matchVars, textVars, bitmapVars, callVars, taskVars, vobVars>>

\* load_first_n_subtitles up to the call of get_first_n_subtitles
\* (mkv.rs:414-437): the track is chosen and the iterator made, or not.
LoadFirstNSubtitles ==
    /\ component = "mkv" /\ pc = "start"
    /\ iter' = IF track_number # None
               THEN subtitle_iter_from_track_number(track_infos, track_number[1])
               ELSE subtitle_iter(track_infos, "English")
    /\ pc' = IF iter' = None THEN "no_track" ELSE "iterating"
    /\ UNCHANGED <<component, num_subtitles, srt_data, track_infos, track_number, blocks,
                   block_pos, decoded_with, collected, matchVars, textVars, bitmapVars, callVars, taskVars, vobVars>>

\* One turn of the loop of get_first_n_subtitles (mkv.rs:445-453) with the
\* SubtitleIterator::next it starts with.  A panic of the iterator's unwrap
\* ends the process; an Err of process_bitmap is returned by `?` through
\* load_first_n_subtitles to the unwrap of process_input_path
\* (main.rs:396-397), which panics as well.
GetNextSubtitle ==
    /\ component = "mkv" /\ pc = "iterating"
    /\ LET track_info == iter[1]
           n == SubtitleIteratorNext(blocks, block_pos, track_info, <<>>)
           ocr == process_bitmap(blocks[n.pos])
       IN /\ block_pos' = n.pos
          /\ decoded_with' = decoded_with \o [i \in 1..Len(n.took) |-> DecoderFor(track_info)]
          /\ CASE n.status = "end"   -> pc' = "done" /\ UNCHANGED collected
               [] n.status = "panic" -> pc' = "panicked" /\ UNCHANGED collected
               [] OTHER ->
                    IF ocr.err THEN pc' = "panicked" /\ UNCHANGED collected
                    ELSE IF ocr.text = None THEN UNCHANGED <<pc, collected>>
                    ELSE /\ collected' = Append(collected, ocr.text[1])
                         /\ pc' = IF Len(collected') >= num_subtitles
                                  THEN "done" ELSE "iterating"
    /\ UNCHANGED <<component, num_subtitles, srt_data, track_infos, track_number, blocks,
                   iter, matchVars, textVars, bitmapVars, callVars, taskVars, vobVars>>

NextFiles == ParseNSubtitles \/ LoadFirstNSubtitles \/ GetNextSubtitle

\* Reference files and input files with one PGS track.
SpecFiles == (InitSrt \/ InitFrames) /\ [][NextFiles]_vars

NextTracks == LoadFirstNSubtitles \/ GetNextSubtitle

\* Input files with any tracks.
SpecTracks == InitTracks /\ [][NextTracks]_vars

(***************************************************************************)
(* Bitmap decoders: pgs/image.rs, vob/mod.rs                               *)
(***************************************************************************)

\* Windows.UI.Color, and the bytes a pixel of it takes in a Bgra8 buffer.
Color(a, r, g, b) == [A |-> a, R |-> r, G |-> g, B |-> b]
Bgra(color) == <<color.B, color.G, color.R, color.A>>

RECURSIVE ToBytes(_)
ToBytes(pixels) == IF pixels = <<>> THEN <<>> ELSE Bgra(Head(pixels)) \o ToBytes(Tail(pixels))

Zeros(n) == [i \in 1..n |-> 0]

\* A buffer size that leaves out the bytes per pixel.
BitmapSizeInPixels(width, height) == width * height

\* The byte size of a Bgra8 buffer for width x height pixels.
bitmap_size(width, height) == width * height * 4

\* ---- PGS ----

DEFAULT == [id |-> 0, color |-> Color(0, 0, 0, 0)]

\* palette_data.iter().find(..).unwrap_or(&DEFAULT)
RECURSIVE FindPalette(_, _)
FindPalette(palette_data, palette_id) ==
    IF palette_data = <<>> THEN DEFAULT
    ELSE IF Head(palette_data).id = palette_id THEN Head(palette_data)
    ELSE FindPalette(Tail(palette_data), palette_id)

\* The pixels the two nested loops of decode_image write, in order.
RECURSIVE RunPixels(_, _)
RunPixels(line, palette_data) ==
    IF line = <<>> THEN <<>>
    ELSE LET run == Head(line)
             color == FindPalette(palette_data, run[1]).color
         IN [i \in 1..run[2] |-> color] \o RunPixels(Tail(line), palette_data)

RECURSIVE LinePixels(_, _)
LinePixels(color_data_lines, palette_data) ==
    IF color_data_lines = <<>> THEN <<>>
    ELSE RunPixels(Head(color_data_lines), palette_data)
         \o LinePixels(Tail(color_data_lines), palette_data)

\* pgs::image::decode_image up to the call of CreateCopyFromBuffer: the buffer
\* of bitmap_size bytes with the pixels written from index 0 on, or the panic
\* of a write past its end.
pgs_decode_image(object_def, color_data_lines, palette_data) ==
    LET size == bitmap_size(object_def.width, object_def.height)
        pixels == ToBytes(LinePixels(color_data_lines, palette_data))
    IN IF Len(pixels) > size
       THEN [panic |-> TRUE, buffer |-> <<>>]
       ELSE [panic |-> FALSE,
             buffer |-> [i \in 1..size |-> IF i <= Len(pixels) THEN pixels[i] ELSE 0]]

\* ---- VOB ----

\* NibbleReader::read_u4 at nibble position pos, and round_to_next_byte.
read_u4(data, pos) ==
    IF pos \div 2 >= Len(data) THEN None
    ELSE Some(IF pos % 2 = 0 THEN data[pos \div 2 + 1] \div 16
              ELSE data[pos \div 2 + 1] % 16)

\* A rounding that leaves every position where it is.
RoundToSameNibble(pos) == pos

\* NibbleReader::round_to_next_byte
round_to_next_byte(pos) == IF pos % 2 # 0 THEN pos + 1 ELSE pos

\* A turn of the loop that reads no nibble and pushes no pixel.
ReadRunOfNothing(data, pos, width, len) ==
    [status |-> "run", num_pixels |-> 0, color |-> 0, pos |-> pos]

\* One run read by the body of the loop of decode_image (vob/mod.rs:304-366)
\* with `len` pixels decoded so far: the end of data, a panic (an unwrap of a
\* missing nibble, the assert on the third nibble), or the run and the new
\* reader position.
ReadRun(data, pos, width, len) ==
    LET n1 == read_u4(data, pos)
        n2 == read_u4(data, pos + 1)
        n3 == read_u4(data, pos + 2)
        n4 == read_u4(data, pos + 3)
        Run(value, used) == [status |-> "run", num_pixels |-> value \div 4,
                             color |-> value % 4, pos |-> pos + used]
        Panic == [status |-> "panic", num_pixels |-> 0, color |-> 0, pos |-> pos]
    IN IF n1 = None THEN [status |-> "eof", num_pixels |-> 0, color |-> 0, pos |-> pos]
       ELSE IF n1[1] >= 4 THEN Run(n1[1], 1)
       ELSE IF n1[1] >= 1 THEN (IF n2 = None THEN Panic ELSE Run(n1[1] * 16 + n2[1], 2))
       ELSE IF n2 = None THEN Panic
       ELSE IF n2[1] >= 4 THEN (IF n3 = None THEN Panic ELSE Run(n2[1] * 16 + n3[1], 3))
       ELSE IF n3 = None \/ n4 = None THEN Panic
       ELSE IF n2[1] >= 1 THEN Run(n2[1] * 256 + n3[1] * 16 + n4[1], 4)
       ELSE IF n3[1] # 0 THEN Panic
       ELSE [status |-> "run", num_pixels |-> width - (len % width),
             color |-> n4[1] % 4, pos |-> pos + 4]

\* The loop of vob::decode_image (vob/mod.rs:288-375).
RECURSIVE DecodeLoop(_, _, _, _, _, _)
DecodeLoop(data, width, total_pixels, palette, pos, pixels) ==
    IF Len(pixels) = total_pixels THEN [panic |-> FALSE, pixels |-> pixels]
    ELSE IF Len(pixels) > total_pixels THEN [panic |-> TRUE, pixels |-> pixels]
    ELSE LET run == ReadRun(data, pos, width, Len(pixels))
             more == pixels \o [i \in 1..run.num_pixels |-> palette[(3 - run.color) + 1]]
         IN CASE run.status = "eof"   -> [panic |-> FALSE, pixels |-> pixels]
              [] run.status = "panic" -> [panic |-> TRUE, pixels |-> pixels]
              [] OTHER -> DecodeLoop(data, width, total_pixels, palette,
                                     IF Len(more) % width = 0
                                     THEN round_to_next_byte(run.pos) ELSE run.pos,
                                     more)

vob_decode_image(data, width, height, palette) ==
    LET r == DecodeLoop(data, width, width * height, palette, 0, <<>>)
    IN [panic |-> r.panic, bytes |-> ToBytes(r.pixels)]

\* slice::chunks(size) for size > 0.
chunks(data, size) ==
    [i \in 1..((Len(data) + size - 1) \div size) |->
        SubSeq(data, (i - 1) * size + 1, Min(i * size, Len(data)))]

\* One of the two loops of interlace_image: the lines of a field copied to
\* rows first, first + 2, ... of `bytes`, the row after the last one folded
\* onto the last one for the odd field.  Slicing past the end of `bytes` and
\* copy_from_slice of a line shorter than a row panic.
RECURSIVE WeaveField(_, _, _, _, _)
WeaveField(bytes, lines, i, stride, odd) ==
    IF i > Len(lines) THEN [panic |-> FALSE, bytes |-> bytes]
    ELSE LET at == IF odd THEN (((i - 1) * 2) + 1) * stride ELSE ((i - 1) * 2) * stride
             interlaced_index == IF odd /\ at = Len(bytes) THEN at - stride ELSE at
         IN IF interlaced_index + stride > Len(bytes) \/ Len(lines[i]) # stride
            THEN [panic |-> TRUE, bytes |-> bytes]
            ELSE WeaveField([k \in 1..Len(bytes) |->
                                IF k > interlaced_index /\ k <= interlaced_index + stride
                                THEN lines[i][k - interlaced_index] ELSE bytes[k]],
                            lines, i + 1, stride, odd)

interlace_image(even_data, odd_data, width, height) ==
    LET bytes == Zeros(width * height * 4)
        stride == width * 4
        even == WeaveField(bytes, chunks(even_data, stride), 1, stride, FALSE)
        odd == WeaveField(even.bytes, chunks(odd_data, stride), 1, stride, TRUE)
    IN IF Len(even_data) + Len(odd_data) > Len(bytes) \/ stride = 0 \/ even.panic
       THEN [panic |-> TRUE, bytes |-> <<>>]
       ELSE odd

\* The heights decode_block passes to decode_image for the two fields:
\* `height / 2` for even_data and `height - height / 2` for odd_data.
EvenFieldHeight(height) == height \div 2
OddFieldHeight(height) == height - (height \div 2)

\* The end of decode_block (vob/mod.rs:211-225) for a command sequence that
\* gave the size, the palettes and the two fields of line data.
decode_block(even_data, odd_data, width, height, palette) ==
    LET even_lines_pixels ==
            vob_decode_image(even_data, width, EvenFieldHeight(height), palette)
        odd_lines_pixels ==
            vob_decode_image(odd_data, width, OddFieldHeight(height), palette)
        woven == interlace_image(even_lines_pixels.bytes, odd_lines_pixels.bytes,
                                 width, height)
    IN IF even_lines_pixels.panic \/ odd_lines_pixels.panic \/ woven.panic
       THEN [panic |-> TRUE, bytes |-> <<>>]
       ELSE woven

\* parse_block up to the call of CreateCopyFromBuffer: the buffer of
\* bitmap_size bytes with `bytes` copied in, copy_from_slice panicking when
\* the two differ in length.
parse_block(bytes, width, height) ==
    IF bitmap_size(width, height) # Len(bytes) THEN [panic |-> TRUE, buffer |-> <<>>]
    ELSE [panic |-> FALSE, buffer |-> bytes]

\* Bounds of the bitmap decoders.
MaxDim == 3
MaxLines == 2
MaxFieldBytes == 2

\* PGS: a palette with the one entry 1, and decoded lines of (palette id,
\* count) runs; palette id 7 is not in the palette.
PaletteData == << [id |-> 1, color |-> Color(255, 10, 20, 30)] >>
LinePool == { <<>>, << <<1, 1>> >>, << <<1, 2>> >>, << <<7, 1>>, <<1, 1>> >>, << <<1, 3>> >> }

\* VOB: the four colours build_subpalette gives, and bytes of line data:
\* 0x44 (two runs of one pixel), 0x84 (a run of two, a run of one) and 0x00
\* (half of the fill-to-end-of-line code).
SubPalette == << Color(0, 0, 0, 0), Color(255, 1, 1, 1), Color(255, 2, 2, 2),
                 Color(127, 3, 3, 3) >>
FieldBytes == { 68, 132, 0 }

InitBitmap ==
    /\ component = "bitmap"
    /\ pc = "start"
    /\ num_subtitles = 0
    /\ \E width \in 0..MaxDim, height \in 0..MaxDim :
         \/ \E n \in 0..MaxLines : \E lines \in [1..n -> LinePool] :
               frame = [codec |-> "PGS", width |-> width, height |-> height,
                        color_data_lines |-> lines]
         \/ \E e \in 0..MaxFieldBytes, o \in 0..MaxFieldBytes :
              \E even \in [1..e -> FieldBytes], odd \in [1..o -> FieldBytes] :
               frame = [codec |-> "VOB", width |-> width, height |-> height,
                        even_data |-> even, odd_data |-> odd]
    /\ decoded = None
    /\ bitmap = None
    /\ MatchIdle
    /\ TextIdle
    /\ FileIdle
    /\ CallIdle
    /\ TaskIdle
    /\ VobIdle

\* SoftwareBitmap::CreateCopyFromBuffer is the platform's: it copies the
\* buffer into a bitmap of the given size, or returns an error.
CreateCopyFromBuffer(buffer, width, height, ok) ==
    IF ok THEN Some([width |-> width, height |-> height, pixels |-> buffer]) ELSE None

\* pgs::image::decode_image (pgs/image.rs:29-67).
DecodeImage ==
    /\ component = "bitmap" /\ pc = "start" /\ frame.codec = "PGS"
    /\ LET r == pgs_decode_image(frame, frame.color_data_lines, PaletteData)
       IN IF r.panic THEN pc' = "panicked" /\ bitmap' = None
          ELSE \E ok \in BOOLEAN :
                 /\ bitmap' = CreateCopyFromBuffer(r.buffer, frame.width, frame.height, ok)
                 /\ pc' = IF ok THEN "done" ELSE "failed"
    /\ UNCHANGED <<component, num_subtitles, frame, decoded, matchVars, textVars,
                   fileVars, callVars, taskVars, vobVars>>

\* vob::parse_block (vob/mod.rs:80-99) with the end of decode_block.
ParseBlock ==
    /\ component = "bitmap" /\ pc = "start" /\ frame.codec = "VOB"
    /\ LET d == decode_block(frame.even_data, frame.odd_data, frame.width, frame.height,
                             SubPalette)
           r == parse_block(d.bytes, frame.width, frame.height)
       IN IF d.panic THEN pc' = "panicked" /\ decoded' = None /\ bitmap' = None
          ELSE /\ decoded' = Some(<<d.bytes, frame.width, frame.height>>)
               /\ IF r.panic THEN pc' = "panicked" /\ bitmap' = None
                  ELSE \E ok \in BOOLEAN :
                         /\ bitmap' = CreateCopyFromBuffer(r.buffer, frame.width,
                                                           frame.height, ok)
                         /\ pc' = IF ok THEN "done" ELSE "failed"
    /\ UNCHANGED <<component, num_subtitles, frame, matchVars, textVars,
                   fileVars, callVars, taskVars, vobVars>>

NextBitmap == DecodeImage \/ ParseBlock

SpecBitmap == InitBitmap /\ [][NextBitmap]_vars

(***************************************************************************)
(* VOB screen coordinates: vob/mod.rs                                      *)
(***************************************************************************)

\* u16 arithmetic: a left shift drops the bits above bit 15.
Shl16(x, k) == (x * (2 ^ k)) % 65536
Shr16(x, k) == x \div (2 ^ k)

\* The first value with byte 0 shifted by 8 rather than 4 before the nibble
\* of byte 1 is put in, as the copy of the function in the tests of mkv.rs
\* (mkv.rs:484-492) has it.
ParseTwoU12Shifted(data) ==
    << Shl16(data[1], 8) + (data[2] \div 16), (data[2] % 16) * 256 + data[3] >>

\* parse_two_u12.  `|` joins a value whose low byte is zero with a byte, so
\* it is a sum.
parse_two_u12(data) ==
    LET v1_p1 == Shl16(data[1], 8)
        v1_p2 == data[2]
        v1 == Shr16(v1_p1 + v1_p2, 4)
        v2_p1 == Shl16(data[2], 8)
        v2_p2 == data[3]
        v2 == Shr16(Shl16(v2_p1 + v2_p2, 4), 4)
    IN <<v1, v2>>

\* Bytes of coordinate data: those of the two examples in the tests, and
\* bytes with all, the high and the low nibble set.
PosBytes == { 0, 2, 207, 34, 62, 14, 161, 225, 26, 1, 187, 255, 15, 240, 128 }

InitU12 ==
    /\ component = "u12"
    /\ pc = "start"
    /\ num_subtitles = 0
    /\ args \in [1..3 -> PosBytes]
    /\ returned = None
    /\ TaskIdle
    /\ VobIdle
    /\ MatchIdle
    /\ TextIdle
    /\ FileIdle
    /\ BitmapIdle

\* decode_block reads one pair of coordinates (vob/mod.rs:185-186).
ParseTwoU12 ==
    /\ component = "u12" /\ pc = "start"
    /\ returned' = Some(parse_two_u12(args))
    /\ pc' = "done"
    /\ UNCHANGED <<component, num_subtitles, args, matchVars, textVars, fileVars,
                   bitmapVars, taskVars, vobVars>>

NextU12 == ParseTwoU12

SpecU12 == InitU12 /\ [][NextU12]_vars

(***************************************************************************)
(* Distances of truncated texts: main.rs                                   *)
(***************************************************************************)

\* Longest text compared.
MaxStrLen == 3

\* The texts over the letters a and b of at most MaxStrLen chars.
AsciiTexts == UNION { [1..n -> {97, 98}] : n \in 0..MaxStrLen }

\* The distance with the reference cut to its last `length` bytes instead of
\* its first.
DistanceOfRefTail(subtitle, ref_subtitle, length) ==
    levenshtein(ByteSlice(subtitle, length),
                SubSeq(ref_subtitle, Len(ref_subtitle) - length + 1, Len(ref_subtitle)))

\* The distance compute_distances takes once `length` is chosen
\* (main.rs:576-579): both texts cut to their first `length` bytes.
Distance(subtitle, ref_subtitle, length) ==
    levenshtein(ByteSlice(subtitle, length), ByteSlice(ref_subtitle, length))

InitPrefix ==
    /\ component = "prefix"
    /\ pc = "start"
    /\ num_subtitles = 0
    /\ \E s \in AsciiTexts, r \in AsciiTexts :
         \E l2 \in 0..Min(ByteLen(s), ByteLen(r)) : \E l1 \in 0..l2 :
            args = [subtitle |-> s, ref_subtitle |-> r, shorter |-> l1, longer |-> l2]
    /\ returned = None
    /\ TaskIdle
    /\ VobIdle
    /\ MatchIdle
    /\ TextIdle
    /\ FileIdle
    /\ BitmapIdle

\* The two texts are compared at both lengths.
CompareAtBoth ==
    /\ component = "prefix" /\ pc = "start"
    /\ returned' = Some(<< Distance(args.subtitle, args.ref_subtitle, args.shorter),
                          Distance(args.subtitle, args.ref_subtitle, args.longer) >>)
    /\ pc' = "done"
    /\ UNCHANGED <<component, num_subtitles, args, matchVars, textVars, fileVars,
                   bitmapVars, taskVars, vobVars>>

NextPrefix == CompareAtBoth

SpecPrefix == InitPrefix /\ [][NextPrefix]_vars

(***************************************************************************)
(* The tracks prelude: mkv.rs                                              *)
(***************************************************************************)

\* KnownLanguage::from_tag: English, or Unknown carrying the tag.
from_tag(tag) ==
    IF tag \in {"en", "eng", "en-US"} THEN <<"English">> ELSE <<"Unknown", tag>>

\* KnownEncoding::from_tag_and_data, by codec id; the idx text of a VOB track
\* is not looked into here.
from_tag_and_data(tag, data) ==
    CASE tag = "S_HDMV/PGS" -> "PGS"
      [] tag = "S_VOBSUB"   -> "VOB"
      [] OTHER              -> "Other"

\* TagData::UnsignedInt, ::Utf8 and ::Binary.
UnsignedInt(value) == [uint |-> value]
Utf8(value) == [utf8 |-> value]
Binary(value) == [binary |-> value]

IsUnsignedInt(data) == DOMAIN data = {"uint"}
IsUtf8(data) == DOMAIN data = {"utf8"}
IsBinary(data) == DOMAIN data = {"binary"}

\* A child element of a TrackEntry: its tag and its data.
Child(tag, data) == [tag |-> tag, data |-> data]

\* children.iter().any(is_subtitle_track)
is_subtitle_track(children) ==
    \E i \in 1..Len(children) :
        /\ children[i].tag = "TrackType"
        /\ IsUnsignedInt(children[i].data) /\ children[i].data.uint = 17

\* A Language child handled like a LanguageIETF child: it always sets the
\* language.
ReadChildOverwriting(found, child) ==
    CASE child.tag = "TrackNumber" /\ IsUnsignedInt(child.data) ->
            [found EXCEPT !.track_number = Some(child.data.uint)]
      [] child.tag = "Language" /\ IsUtf8(child.data) ->
            [found EXCEPT !.language = Some(child.data.utf8)]
      [] child.tag = "LanguageIETF" /\ IsUtf8(child.data) ->
            [found EXCEPT !.language = Some(child.data.utf8)]
      [] child.tag = "CodecId" /\ IsUtf8(child.data) ->
            [found EXCEPT !.encoding = Some(child.data.utf8)]
      [] child.tag = "CodecPrivate" /\ IsBinary(child.data) ->
            [found EXCEPT !.private_data = Some(child.data.binary)]
      [] OTHER -> found

\* The body of the loop over the children of a subtitle TrackEntry
\* (mkv.rs:185-221): what one child does to the four values looked for.
ReadChild(found, child) ==
    CASE child.tag = "TrackNumber" /\ IsUnsignedInt(child.data) ->
            [found EXCEPT !.track_number = Some(child.data.uint)]
      [] child.tag = "Language" /\ IsUtf8(child.data) /\ found.language = None ->
            [found EXCEPT !.language = Some(child.data.utf8)]
      [] child.tag = "LanguageIETF" /\ IsUtf8(child.data) ->
            [found EXCEPT !.language = Some(child.data.utf8)]
      [] child.tag = "CodecId" /\ IsUtf8(child.data) ->
            [found EXCEPT !.encoding = Some(child.data.utf8)]
      [] child.tag = "CodecPrivate" /\ IsBinary(child.data) ->
            [found EXCEPT !.private_data = Some(child.data.binary)]
      [] OTHER -> found

RECURSIVE ReadChildren(_, _)
ReadChildren(found, children) ==
    IF children = <<>> THEN found
    ELSE ReadChildren(ReadChild(found, Head(children)), Tail(children))

\* What MkvFile::new makes of one TrackEntry (mkv.rs:166-239): no track, or
\* the TrackInfo it pushes.
track_entry(children) ==
    LET found == ReadChildren([track_number |-> None, language |-> None,
                               encoding |-> None, private_data |-> None], children)
    IN IF is_subtitle_track(children) /\ found.track_number # None
          /\ found.language # None /\ found.encoding # None
       THEN Some(TrackInfo(found.track_number[1], from_tag(found.language[1]),
                           from_tag_and_data(found.encoding[1], found.private_data)))
       ELSE None

\* Most Language and LanguageIETF children of an entry.
MaxLanguageChildren == 2

LanguageTags == { "en", "eng", "en-US", "EN", "fr" }

LanguageChildren ==
    { Child(t, Utf8(v)) : t \in {"Language", "LanguageIETF"}, v \in LanguageTags }

\* The other children of an entry: all of them, or one of them missing, or a
\* track type that is not a subtitle's.
OtherChildren ==
    LET type(v) == Child("TrackType", UnsignedInt(v))
        number == Child("TrackNumber", UnsignedInt(1))
        codec == Child("CodecId", Utf8("S_HDMV/PGS"))
    IN { <<type(17), number, codec>>, <<type(1), number, codec>>,
         <<type(17), codec>>, <<type(17), number>> }

InitTrackEntry ==
    /\ component = "track_entry"
    /\ pc = "start"
    /\ num_subtitles = 0
    /\ \E others \in OtherChildren : \E n \in 0..MaxLanguageChildren :
         \E langs \in [1..n -> LanguageChildren] : \E at \in 0..Len(others) :
            args = SubSeq(others, 1, at) \o langs \o SubSeq(others, at + 1, Len(others))
    /\ returned = None
    /\ TaskIdle
    /\ VobIdle
    /\ MatchIdle
    /\ TextIdle
    /\ FileIdle
    /\ BitmapIdle

\* MkvFile::new meets a TrackEntry.
ReadTrackEntry ==
    /\ component = "track_entry" /\ pc = "start"
    /\ returned' = Some(track_entry(args))
    /\ pc' = "done"
    /\ UNCHANGED <<component, num_subtitles, args, matchVars, textVars, fileVars,
                   bitmapVars, taskVars, vobVars>>

NextTrackEntry == ReadTrackEntry

SpecTrackEntry == InitTrackEntry /\ [][NextTrackEntry]_vars

(***************************************************************************)
(* The tag stream and the block iterator: mkv.rs                           *)
(***************************************************************************)

\* The tags the WebmIterator gives: a TrackEntry with its children, a Block
\* or SimpleBlock with the track it belongs to, and any other tag (Tracks,
\* Cluster, ...).
TrackEntryTag(children) == [spec_tag |-> "TrackEntry", children |-> children]
BlockTag(spec_tag, track) == [spec_tag |-> spec_tag, track |-> track]
OtherTag(spec_tag) == [spec_tag |-> spec_tag]

\* The loop of MkvFile::new (mkv.rs:155-243) from position `pos` of the
\* stream with `infos` collected so far: it stops after a Tracks tag once a
\* track has been collected, or at the end of the stream.
RECURSIVE ReadPrelude(_, _, _)
ReadPrelude(stream, pos, infos) ==
    IF pos >= Len(stream) THEN [pos |-> pos, track_infos |-> infos]
    ELSE LET tag == stream[pos + 1]
         IN CASE tag.spec_tag = "TrackEntry" ->
                    ReadPrelude(stream, pos + 1, infos \o track_entry(tag.children))
              [] tag.spec_tag = "Tracks" /\ infos # <<>> ->
                    [pos |-> pos + 1, track_infos |-> infos]
              [] OTHER -> ReadPrelude(stream, pos + 1, infos)

\* A next() that returns the first Block or SimpleBlock it meets, whatever
\* its track.
RECURSIVE BlockIteratorNextOfAnyTrack(_, _, _)
BlockIteratorNextOfAnyTrack(stream, pos, number) ==
    IF pos >= Len(stream) THEN [block |-> None, pos |-> pos]
    ELSE IF stream[pos + 1].spec_tag \in {"Block", "SimpleBlock"}
         THEN [block |-> Some(pos + 1), pos |-> pos + 1]
         ELSE BlockIteratorNextOfAnyTrack(stream, pos + 1, number)

\* BlockIterator::next (mkv.rs:352-370) with `pos` tags of the stream read:
\* the position of the block it returns, or None at the end of the stream,
\* and the tags read after the call.
RECURSIVE BlockIteratorNext(_, _, _)
BlockIteratorNext(stream, pos, number) ==
    IF pos >= Len(stream) THEN [block |-> None, pos |-> pos]
    ELSE IF /\ stream[pos + 1].spec_tag \in {"Block", "SimpleBlock"}
            /\ stream[pos + 1].track = number
         THEN [block |-> Some(pos + 1), pos |-> pos + 1]
         ELSE BlockIteratorNext(stream, pos + 1, number)

\* Longest tag stream.
MaxTags == 5

\* The entry of English PGS subtitle track 1, a Tracks tag, blocks of tracks 1
\* and 2, and a Cluster tag.
TagPool ==
    { TrackEntryTag(<< Child("TrackType", UnsignedInt(17)),
                       Child("TrackNumber", UnsignedInt(1)),
                       Child("Language", Utf8("eng")),
                       Child("CodecId", Utf8("S_HDMV/PGS")) >>),
      OtherTag("Tracks"), OtherTag("Cluster"),
      BlockTag("Block", 1), BlockTag("SimpleBlock", 1), BlockTag("Block", 2) }

InitBlocks ==
    /\ component = "blocks"
    /\ pc = "start"
    /\ num_subtitles = 0
    /\ \E n \in 0..MaxTags : args \in [1..n -> TagPool]
    /\ returned = None
    /\ TaskIdle
    /\ VobIdle
    /\ srt_data = <<>> /\ track_infos = <<>> /\ track_number = Some(1) /\ blocks = <<>>
    /\ block_pos = 0 /\ iter = None /\ decoded_with = <<>> /\ collected = <<>>
    /\ MatchIdle
    /\ TextIdle
    /\ BitmapIdle

\* MkvFile::new reads the prelude and a BlockIterator is made for the track
\* with the chosen number (mkv.rs:326-332, 341-346), if the file has it.
OpenBlockIter ==
    /\ component = "blocks" /\ pc = "start"
    /\ LET file == ReadPrelude(args, 0, <<>>)
       IN /\ track_infos' = file.track_infos
          /\ block_pos' = file.pos
          /\ iter' = LastTrack(file.track_infos,
                               {t \in Tracks(file.track_infos) :
                                    t.track_number = track_number[1]}, None)
    /\ pc' = IF iter' = None THEN "no_track" ELSE "iterating"
    /\ UNCHANGED <<component, num_subtitles, srt_data, track_number, blocks, decoded_with,
                   collected, matchVars, textVars, bitmapVars, callVars, taskVars, vobVars>>

\* One call of BlockIterator::next; `collected` lists the stream positions of
\* the blocks returned.  A call after the end reads the exhausted stream again.
CallBlockIteratorNext ==
    /\ component = "blocks" /\ pc \in {"iterating", "ended"}
    /\ LET n == BlockIteratorNext(args, block_pos, iter[1].track_number)
       IN /\ block_pos' = n.pos
          /\ collected' = collected \o n.block
          /\ pc' = IF n.block # None THEN pc
                   ELSE IF pc = "iterating" THEN "ended" ELSE "ended_again"
    /\ UNCHANGED <<component, num_subtitles, srt_data, track_infos, track_number, blocks,
                   iter, decoded_with, matchVars, textVars, bitmapVars, callVars, taskVars, vobVars>>

NextBlocks == OpenBlockIter \/ CallBlockIteratorNext

SpecBlocks == InitBlocks /\ [][NextBlocks]_vars

(***************************************************************************)
(* The per-file tasks of a directory: main.rs                              *)
(***************************************************************************)

\* get_first_n_subtitles as a function of the blocks still to read:
\* the strings, or a panic (of the iterator's unwrap, or of the caller's
\* unwrap of the Err of process_bitmap).
RECURSIVE get_first_n_subtitles(_, _, _, _, _)
get_first_n_subtitles(stream, pos, track_info, n, acc) ==
    LET next == SubtitleIteratorNext(stream, pos, track_info, <<>>)
        ocr == process_bitmap(stream[next.pos])
    IN CASE next.status = "end"   -> [panic |-> FALSE, subtitles |-> acc]
         [] next.status = "panic" -> [panic |-> TRUE, subtitles |-> acc]
         [] OTHER ->
              IF ocr.err THEN [panic |-> TRUE, subtitles |-> acc]
              ELSE IF ocr.text = None
                   THEN get_first_n_subtitles(stream, next.pos, track_info, n, acc)
              ELSE IF Len(acc) + 1 >= n
                   THEN [panic |-> FALSE, subtitles |-> acc \o ocr.text]
              ELSE get_first_n_subtitles(stream, next.pos, track_info, n, acc \o ocr.text)

\* load_first_n_english_subtitles(..).unwrap() for a file without -t: a
\* panic, or loaded = None (no track to iterate) or Some(strings).
load_first_n_english_subtitles(file, n) ==
    LET track == subtitle_iter(file.track_infos, "English")
        read == get_first_n_subtitles(file.blocks, 0, track[1], n, <<>>)
    IN IF track = None THEN [panic |-> FALSE, loaded |-> None]
       ELSE [panic |-> read.panic, loaded |-> Some(read.subtitles)]

\* What the closure of filter_map loads for one directory entry
\* (main.rs:391-398, 455-458): nothing for another extension, else the
\* result of the reader of the files of this kind.
LoadFile(kind, file, n) ==
    IF file.ext # kind THEN [panic |-> FALSE, loaded |-> None]
    ELSE IF kind = "srt"
         THEN LET r == parse_n_subtitles(file.data, n)
              IN [panic |-> r.panic, loaded |-> Some(r.subtitles)]
         ELSE load_first_n_english_subtitles(file, n)

\* What the closure then returns (main.rs:399-407, 459-465): the entry of
\* the file if it has strings.
Entry(path, loaded) ==
    IF loaded # None /\ loaded[1] # <<>> THEN Some(<<path, loaded[1]>>) ELSE None

\* A collection that holds the entries in the order the tasks ended.
CollectAsFinished(slots, order) ==
    LET RECURSIVE Cat(_)
        Cat(k) == IF k > Len(order) THEN <<>> ELSE slots[order[k]] \o Cat(k + 1)
    IN Cat(1)

\* collect() of the parallel iterator into a Vec: the entries in the order of
\* `paths`, whatever the order the tasks ended in.
Collect(slots, order) ==
    LET RECURSIVE Cat(_)
        Cat(k) == IF k > Len(slots) THEN <<>> ELSE slots[k] \o Cat(k + 1)
    IN Cat(1)

\* Most files of a directory.
MaxFiles == 3

\* Input files: one whose English PGS track reads "Hi", one whose track reads
\* "a" then "Hi", one whose only frame has no text, one with a VOB track, one
\* whose first block does not decode, and a file of another extension.
MkvFiles ==
    LET pgs == <<TrackInfo(1, "English", "PGS")>>
        hi == Block(1, "bitmap", Some(<<72, 105>>))
        a == Block(1, "bitmap", Some(<<97>>))
    IN { [ext |-> "mkv", track_infos |-> pgs, blocks |-> <<hi>>],
         [ext |-> "mkv", track_infos |-> pgs, blocks |-> <<a, hi>>],
         [ext |-> "mkv", track_infos |-> pgs, blocks |-> <<Block(1, "bitmap", Some(<<32>>))>>],
         [ext |-> "mkv", track_infos |-> <<TrackInfo(1, "English", "VOB")>>, blocks |-> <<hi>>],
         [ext |-> "mkv", track_infos |-> pgs, blocks |-> <<Block(1, "error", None), hi>>],
         [ext |-> "txt", track_infos |-> pgs, blocks |-> <<hi>>] }

\* Reference files: the cue "Hi", the cue "[x]" (no string), a cue without a
\* text line (the unwrap panics), and a file of another extension.
SrtFiles ==
    { [ext |-> "srt", data |-> <<49, 10, 48, 10, 72, 105>>],
      [ext |-> "srt", data |-> <<49, 10, 48, 10, 91, 120, 93>>],
      [ext |-> "srt", data |-> <<49, 10, 48>>],
      [ext |-> "txt", data |-> <<49, 10, 48, 10, 72, 105>>] }

InitTasks ==
    /\ component = "tasks"
    /\ pc = "running"
    /\ num_subtitles = MaxCount
    /\ \E n \in 0..MaxFiles :
         \/ \E paths \in [1..n -> MkvFiles] : args = [kind |-> "mkv", paths |-> paths]
         \/ \E paths \in [1..n -> SrtFiles] : args = [kind |-> "srt", paths |-> paths]
    /\ returned = None
    /\ tasks = [i \in 1..Len(args.paths) |-> [pc |-> "queued", loaded |-> None, slot |-> None]]
    /\ finished = <<>>
    /\ MatchIdle
    /\ TextIdle
    /\ FileIdle
    /\ BitmapIdle
    /\ VobIdle

\* The task of file i reads its file.  A panic of a task is the panic of the
\* whole run.
LoadTask(i) ==
    /\ component = "tasks" /\ pc = "running" /\ tasks[i].pc = "queued"
    /\ LET r == LoadFile(args.kind, args.paths[i], num_subtitles)
       IN IF r.panic THEN pc' = "panicked" /\ UNCHANGED tasks
          ELSE /\ tasks' = [tasks EXCEPT ![i] = [pc |-> "loaded", loaded |-> r.loaded,
                                                  slot |-> None]]
               /\ UNCHANGED pc
    /\ UNCHANGED <<component, num_subtitles, args, returned, finished, matchVars, textVars,
                   fileVars, bitmapVars, vobVars>>

\* The task of file i returns its entry, or none.
FinishTask(i) ==
    /\ component = "tasks" /\ pc = "running" /\ tasks[i].pc = "loaded"
    /\ tasks' = [tasks EXCEPT ![i] = [pc |-> "done", loaded |-> tasks[i].loaded,
                                      slot |-> Entry(i, tasks[i].loaded)]]
    /\ finished' = Append(finished, i)
    /\ UNCHANGED <<component, pc, num_subtitles, args, returned, matchVars, textVars,
                   fileVars, bitmapVars, vobVars>>

\* All tasks have ended: collect() returns the result.
CollectResult ==
    /\ component = "tasks" /\ pc = "running"
    /\ \A i \in 1..Len(tasks) : tasks[i].pc = "done"
    /\ returned' = Some(Collect([i \in 1..Len(tasks) |-> tasks[i].slot], finished))
    /\ pc' = "collected"
    /\ UNCHANGED <<component, num_subtitles, args, tasks, finished, matchVars, textVars,
                   fileVars, bitmapVars, vobVars>>

NextTasks ==
    \/ \E i \in 1..Len(tasks) : LoadTask(i)
    \/ \E i \in 1..Len(tasks) : FinishTask(i)
    \/ CollectResult

SpecTasks == InitTasks /\ [][NextTasks]_vars

(***************************************************************************)
(* The PGS palette: pgs/mod.rs                                             *)
(***************************************************************************)

\* u8::wrapping_sub.
wrapping_sub(a, b) == (a - b + 256) % 256

\* `x as u8` of the f32 x given in thousandths: truncation toward zero,
\* saturating at 0 and 255.
AsU8(thousandths) ==
    IF thousandths <= 0 THEN 0
    ELSE IF thousandths >= 255000 THEN 255
    ELSE thousandths \div 1000

PaletteEntry(id, y, cr, cb, alpha) ==
    [palette_entry_id |-> id, luminance |-> y, color_difference_red |-> cr,
     color_difference_blue |-> cb, alpha |-> alpha]

\* COLOR_CONVERSION_MATRIX * values, row by row, in thousandths: values is
\* (Y - 16, Cb - 128, Cr - 128) and the matrix is given row-major.
rgb_values(entry) ==
    LET y == wrapping_sub(entry.luminance, 16)
        cb == wrapping_sub(entry.color_difference_blue, 128)
        cr == wrapping_sub(entry.color_difference_red, 128)
    IN << 1164 * y + 0 * cb + 1793 * cr,
          1164 * y - 213 * cb - 533 * cr,
          1164 * y + 2112 * cb + 0 * cr >>

\* convert_palette_color: r is row 0, b is row 1 and g is row 2.
convert_palette_color(entry) ==
    LET r == AsU8(rgb_values(entry)[1])
        b == AsU8(rgb_values(entry)[2])
        g == AsU8(rgb_values(entry)[3])
    IN [id |-> entry.palette_entry_id, color |-> Color(entry.alpha, r, g, b)]

\* Palette bytes: Y below 16 (the subtraction wraps), black, mid and white
\* levels; chroma below, at and above 128; alpha transparent or opaque.
LuminancePool == { 0, 16, 81, 145, 235 }
ChromaPool == { 16, 90, 128, 240 }
AlphaPool == { 0, 255 }

InitPalette ==
    /\ component = "palette"
    /\ pc = "start"
    /\ num_subtitles = 0
    /\ \E y \in LuminancePool, cr \in ChromaPool, cb \in ChromaPool, alpha \in AlphaPool :
         args = PaletteEntry(1, y, cr, cb, alpha)
    /\ returned = None
    /\ MatchIdle
    /\ TextIdle
    /\ FileIdle
    /\ BitmapIdle
    /\ TaskIdle
    /\ VobIdle

ConvertPaletteColor ==
    /\ component = "palette" /\ pc = "start"
    /\ returned' = Some(convert_palette_color(args))
    /\ pc' = "done"
    /\ UNCHANGED <<component, num_subtitles, args, matchVars, textVars, fileVars,
                   bitmapVars, taskVars, vobVars>>

NextPalette == ConvertPaletteColor

SpecPalette == InitPalette /\ [][NextPalette]_vars

(***************************************************************************)
(* The PGS object segment: pgs/mod.rs                                      *)
(***************************************************************************)

\* u8 shifts: `(x << k) as u8` and `x >> k`.
Shl8(x, k) == (x * 2^k) % 256
Shr8(x, k) == x \div 2^k

\* A length field that keeps the two code bits.
NumDataWithCode(num_pixel_data) == num_pixel_data

\* num_data: the low six bits of the byte after 0x00.
NumData(num_pixel_data) == Shr8(Shl8(num_pixel_data, 2), 2)

\* u16::from_be_bytes(bytes) as i32.
from_be_bytes(bytes) == bytes[1] * 256 + bytes[2]

\* The loop of read_object_def_segment over the bytes after the ObjectDef,
\* from the 0-based position pos: the lines pushed, or the Err of a read_u8
\* past the end.  The runs of a line that has not been ended are dropped.
RECURSIVE ReadLines(_, _, _, _)
ReadLines(data, pos, current_line, color_data_lines) ==
    LET byte(k) == data[pos + k]
        has(k) == pos + k <= Len(data)
        Err == [err |-> TRUE, lines |-> <<>>]
        Push(color, num, used) ==
            ReadLines(data, pos + used, Append(current_line, <<color, num>>), color_data_lines)
    IN IF pos >= Len(data) THEN [err |-> FALSE, lines |-> color_data_lines]
       ELSE IF byte(1) # 0 THEN Push(byte(1), 1, 1)
       ELSE IF ~has(2) THEN Err
       ELSE IF byte(2) = 0
            THEN ReadLines(data, pos + 2, <<>>, Append(color_data_lines, current_line))
       ELSE LET code == Shr8(byte(2), 6)
                num_data == NumData(byte(2))
            IN CASE code = 0 -> Push(0, num_data, 2)
                 [] code = 1 -> IF ~has(3) THEN Err
                                ELSE Push(0, from_be_bytes(<<num_data, byte(3)>>), 3)
                 [] code = 2 -> IF ~has(3) THEN Err
                                ELSE Push(byte(3), num_data, 3)
                 [] OTHER    -> IF ~has(4) THEN Err
                                ELSE Push(byte(4), from_be_bytes(<<num_data, byte(3)>>), 4)

\* read_object_def_segment after the ObjectDef has been read.
read_object_def_segment(data) == ReadLines(data, 0, <<>>, <<>>)

\* Most bytes of an object body.
MaxBodyBytes == 6

\* Bytes of an object body: 0x00; 0x05 (a colour, or code 00 with length 5);
\* 0x41 (code 01), 0x82 (code 10) and 0xC1 (code 11), which are colours too.
BodyBytes == { 0, 5, 65, 130, 193 }

InitObject ==
    /\ component = "object"
    /\ pc = "start"
    /\ num_subtitles = 0
    /\ \E n \in 0..MaxBodyBytes : \E data \in [1..n -> BodyBytes] : args = data
    /\ returned = None
    /\ MatchIdle
    /\ TextIdle
    /\ FileIdle
    /\ BitmapIdle
    /\ TaskIdle
    /\ VobIdle

\* read_object_def_segment(..).unwrap() in parse_segments: an Err panics.
ReadObjectDefSegment ==
    /\ component = "object" /\ pc = "start"
    /\ LET r == read_object_def_segment(args)
       IN IF r.err THEN pc' = "panicked" /\ UNCHANGED returned
          ELSE pc' = "done" /\ returned' = Some(r.lines)
    /\ UNCHANGED <<component, num_subtitles, args, matchVars, textVars, fileVars,
                   bitmapVars, taskVars, vobVars>>

NextObject == ReadObjectDefSegment

SpecObject == InitObject /\ [][NextObject]_vars

(***************************************************************************)
(* The PGS segments of a block: pgs/mod.rs                                 *)
(***************************************************************************)

Segment(ty, len, payload) == [ty |-> ty, len |-> len, payload |-> payload]

\* for entry in palettes { converted.push(convert_palette_color(&entry)) }
Converted(palettes) == [i \in 1..Len(palettes) |-> convert_palette_color(palettes[i])]

\* A palette assignment that keeps the first palette of the block.
KeepFirstPalette(last_palette_data, converted) ==
    IF last_palette_data = None THEN Some(converted) ELSE last_palette_data

\* last_palette_data = Some(converted)
SetLastPalette(last_palette_data, converted) == Some(converted)

\* The loop of parse_segments from segment k on.  `ok` is whether the
\* platform's CreateCopyFromBuffer succeeds.
RECURSIVE ParseFrom(_, _, _, _)
ParseFrom(data, k, last_palette_data, ok) ==
    IF k > Len(data) THEN [status |-> "none", bitmap |-> None]
    ELSE LET segment == data[k]
             read == read_object_def_segment(segment.payload.body)
             image == pgs_decode_image(segment.payload, read.lines, last_palette_data[1])
         IN IF segment.len = 0
            THEN IF segment.ty # "EndDisplaySet"
                 THEN [status |-> "panic", bitmap |-> None]
                 ELSE ParseFrom(data, k + 1, last_palette_data, ok)
            ELSE CASE segment.ty = "PaletteDef" ->
                        ParseFrom(data, k + 1,
                                  SetLastPalette(last_palette_data, Converted(segment.payload)),
                                  ok)
                   [] segment.ty = "ObjDataDef" ->
                        IF read.err THEN [status |-> "panic", bitmap |-> None]
                        ELSE IF last_palette_data = None
                             THEN ParseFrom(data, k + 1, last_palette_data, ok)
                        ELSE IF image.panic THEN [status |-> "panic", bitmap |-> None]
                        ELSE IF ~ok THEN [status |-> "err", bitmap |-> None]
                        ELSE [status |-> "some",
                              bitmap |-> CreateCopyFromBuffer(image.buffer, segment.payload.width,
                                                              segment.payload.height, ok)]
                   [] OTHER -> ParseFrom(data, k + 1, last_palette_data, ok)

\* parse_segments: last_palette_data starts as None in every call.
parse_segments(data, ok) == ParseFrom(data, 1, None, ok)

\* Most segments of a block.
MaxSegments == 3

\* Segments: two palettes that give the entry 5 different colours; an object
\* of one pixel and one of two pixels of colour 5; a segment of another type;
\* the end of a display set; a window segment of length 0.
SegmentPool ==
    { Segment("PaletteDef", 7, <<PaletteEntry(5, 145, 128, 240, 255)>>),
      Segment("PaletteDef", 7, <<PaletteEntry(5, 81, 240, 90, 255)>>),
      Segment("ObjDataDef", 14, [width |-> 1, height |-> 1, body |-> <<5, 0, 0>>]),
      Segment("ObjDataDef", 15, [width |-> 2, height |-> 1, body |-> <<5, 5, 0, 0>>]),
      Segment("PresentationComp", 11, <<>>),
      Segment("EndDisplaySet", 0, <<>>),
      Segment("WindowDef", 0, <<>>) }

\* The block read before: none, or one that holds a palette, or one that
\* holds a palette and an object.
EarlierBlocks ==
    { <<>>,
      << <<Segment("PaletteDef", 7, <<PaletteEntry(5, 81, 240, 90, 255)>>)>> >>,
      << <<Segment("PaletteDef", 7, <<PaletteEntry(5, 81, 240, 90, 255)>>),
           Segment("ObjDataDef", 14, [width |-> 1, height |-> 1, body |-> <<5, 0, 0>>])>> >> }

InitSegments ==
    /\ component = "segments"
    /\ pc = "running"
    /\ num_subtitles = 0
    /\ \E earlier \in EarlierBlocks : \E n \in 0..MaxSegments :
         \E data \in [1..n -> SegmentPool] : args = Append(earlier, data)
    /\ returned = <<>>
    /\ MatchIdle
    /\ TextIdle
    /\ FileIdle
    /\ BitmapIdle
    /\ TaskIdle
    /\ VobIdle

\* parse_segments on the next block of the track.
ParseSegments ==
    /\ component = "segments" /\ pc = "running"
    /\ \E ok \in BOOLEAN :
         LET r == parse_segments(args[Len(returned) + 1], ok)
         IN /\ returned' = Append(returned, r)
            /\ pc' = CASE r.status = "panic" -> "panicked"
                       [] r.status = "err"   -> "failed"
                       [] Len(returned') = Len(args) -> "done"
                       [] OTHER -> "running"
    /\ UNCHANGED <<component, num_subtitles, args, matchVars, textVars, fileVars,
                   bitmapVars, taskVars, vobVars>>

NextSegments == ParseSegments

SpecSegments == InitSegments /\ [][NextSegments]_vars

(***************************************************************************)
(* The VOB subpalette: vob/mod.rs                                          *)
(***************************************************************************)

\* ((16.min(original_alpha_value + 1) as f32 / 16.0) * 255.0) as usize: the
\* quotient and the product are exact in f32, and the cast truncates.
alpha_value(original_alpha_value) == (Min(16, original_alpha_value + 1) * 255) \div 16

\* build_subpalette: one colour for each entry of color_info.  An index past
\* the end of `palette` panics.
build_subpalette(palette, color_info, alpha_info) ==
    LET Entry4(i) ==
            IF alpha_info[i] = 0 THEN Color(0, 0, 0, 0)
            ELSE LET palette_color == palette[color_info[i] + 1]
                 IN Color(alpha_value(alpha_info[i]) % 256, palette_color.R, palette_color.G,
                          palette_color.B)
    IN IF \E i \in 1..Len(color_info) : alpha_info[i] # 0 /\ color_info[i] >= Len(palette)
       THEN [panic |-> TRUE, subpalette |-> <<>>]
       ELSE [panic |-> FALSE, subpalette |-> [i \in 1..Len(color_info) |-> Entry4(i)]]

\* The palette of the track: 16 opaque colours, all different.
IdxPalette == [i \in 1..16 |-> Color(255, 10 * i, i, 255 - i)]

\* Colour nibbles of command 0x03 and alpha nibbles of command 0x04.
ColorNibbles == { 0, 5, 15 }
AlphaNibbles == 0..15

InitSubpalette ==
    /\ component = "subpalette"
    /\ pc = "start"
    /\ num_subtitles = 0
    /\ \E a \in AlphaNibbles, b \in AlphaNibbles : \E color_info \in [1..4 -> ColorNibbles] :
         args = [color_info |-> color_info, alpha_info |-> <<a, b, 0, 15>>]
    /\ returned = None
    /\ MatchIdle
    /\ TextIdle
    /\ FileIdle
    /\ BitmapIdle
    /\ TaskIdle
    /\ VobIdle

BuildSubpalette ==
    /\ component = "subpalette" /\ pc = "start"
    /\ LET r == build_subpalette(IdxPalette, args.color_info, args.alpha_info)
       IN IF r.panic THEN pc' = "panicked" /\ UNCHANGED returned
          ELSE pc' = "done" /\ returned' = Some(r.subpalette)
    /\ UNCHANGED <<component, num_subtitles, args, matchVars, textVars, fileVars,
                   bitmapVars, taskVars, vobVars>>

NextSubpalette == BuildSubpalette

SpecSubpalette == InitSubpalette /\ [][NextSubpalette]_vars

(***************************************************************************)
(* The decode of one VOB block, step by step: vob/mod.rs                   *)
(***************************************************************************)

\* Cursor reads at the 0-based position pos: None past the end of the data.
read_u8(data, pos) == IF pos + 1 > Len(data) THEN None ELSE Some(data[pos + 1])
read_u16(data, pos) ==
    IF pos + 2 > Len(data) THEN None ELSE Some(data[pos + 1] * 256 + data[pos + 2])
read_exact(data, pos, n) ==
    IF pos + n > Len(data) THEN None ELSE Some(SubSeq(data, pos + 1, pos + n))

\* read_four_nibbles on the two bytes it has read.
read_four_nibbles(data) ==
    <<data[1] \div 16, data[1] % 16, data[2] \div 16, data[2] % 16>>

\* compute_size in u16: a difference below zero or a sum above 65535 is an
\* overflow (a panic in a build with overflow checks, a wrap without).
compute_size(x1, x2, y1, y2) ==
    [overflow |-> x2 < x1 \/ y2 < y1 \/ x2 - x1 = 65535 \/ y2 - y1 = 65535,
     width |-> (x2 - x1 + 1) % 65536, height |-> (y2 - y1 + 1) % 65536]

\* The bytes one turn of the command loop reads for a command type, the
\* type included (vob/mod.rs:164-203).
CommandLength(command_type) ==
    CASE command_type \in {3, 4} -> 3
      [] command_type = 5 -> 7
      [] command_type = 6 -> 5
      [] OTHER -> 1

\* What a command sequence starts with (vob/mod.rs:151-162).
NewSequence(position, next_seq_position) ==
    [current_sequence_position |-> position, next_seq_position |-> next_seq_position,
     size |-> None, current_color_palette |-> None, current_alpha_palette |-> None,
     interlaced_data |-> None, palette |-> <<>>]

\* ---- block data to decode ----

U16(v) == <<v \div 256, v % 256>>

\* Commands: 0x03 with the colours 0, 1, 2, 3; 0x04 with the alphas 15, 15,
\* 15, 0; 0x05 with x1 = y1 = 0; 0x06 with the positions of the two fields.
Cmd3 == <<3, 1, 35>>
Cmd4 == <<4, 255, 240>>
Cmd5(width, height) ==
    <<5, 0, (width - 1) \div 256, (width - 1) % 256, 0, (height - 1) \div 256, (height - 1) % 256>>
Cmd6(first_line_position, second_line_position) ==
    <<6>> \o U16(first_line_position) \o U16(second_line_position)

\* Command sequences for a picture of width x height with an even field of
\* `even` bytes, as <<commands, last>>, last saying that next_seq_position
\* is the sequence's own position: all four commands that set something,
\* all but the alpha palette, all but the image data, none of the four, and
\* a command type that is none.
CommandLists(width, height, even) ==
    LET size == Cmd5(width, height)
        image == Cmd6(4, 4 + even)
    IN { << <<1>> \o Cmd3 \o Cmd4 \o size \o image, TRUE >>,
         << Cmd3 \o size \o image, TRUE >>,
         << Cmd3 \o Cmd4 \o size, TRUE >>,
         << Cmd3 \o Cmd4 \o size, FALSE >>,
         << <<0, 2>>, TRUE >>,
         << <<0, 2>>, FALSE >>,
         << <<7>>, FALSE >> }

\* The bytes of the sequences with the given commands, the first at
\* `position`; next_seq_position is the sequence's own position where
\* `last` says so, else the position after its 0xFF.
RECURSIVE EncodeSequences(_, _, _)
EncodeSequences(position, commands, last) ==
    IF commands = <<>> THEN <<>>
    ELSE LET after == position + 4 + Len(Head(commands)) + 1
             next_seq_position == IF Head(last) THEN position ELSE after
         IN U16(0) \o U16(next_seq_position) \o Head(commands) \o <<255>>
            \o EncodeSequences(after, Tail(commands), Tail(last))

\* block_data: the packet size, the data packet (its size and the two
\* fields), the command sequences.
BlockData(even_data, odd_data, commands, last) ==
    LET data_packet_size == 4 + Len(even_data) + Len(odd_data)
        rest == U16(data_packet_size) \o even_data \o odd_data
                \o EncodeSequences(data_packet_size, commands, last)
    IN U16(2 + Len(rest)) \o rest

\* Bounds of the block decode.
MaxSequences == 2
MaxLineBytes == 3

\* Bytes of line data: 0x44 (two runs of one pixel), 0x40 (a run of one, then
\* the first nibble of a longer code: 0x40 0x44 holds a 12-bit code, 0x40
\* 0x15 0x40 a 16-bit code, 0x40 0x00 0x00 a fill), 0x15 (a run of five of
\* colour 1) and 0x00.
LineBytes == { 68, 64, 21, 0 }

\* Sizes of subpictures, as <<width, height>>.
PictureSizes == { <<2, 3>>, <<5, 2>> }

\* Blocks of up to MaxSequences command sequences over one picture.
CommandBlocks ==
    UNION { { BlockData(<<68>>, <<68>>, [i \in 1..n |-> sequences[i][1]],
                        [i \in 1..n |-> sequences[i][2]]) :
                sequences \in [1..n -> CommandLists(1, 2, 1)] } :
            n \in 1..MaxSequences }

\* Blocks of one full command sequence over fields of up to MaxLineBytes.
FieldBlocks ==
    UNION { { BlockData(even_data, odd_data,
                        << <<1>> \o Cmd3 \o Cmd4 \o Cmd5(size[1], size[2])
                           \o Cmd6(4, 4 + Len(even_data)) >>,
                        <<TRUE>>) :
                even_data \in [1..n -> LineBytes], odd_data \in { <<68, 68>> },
                size \in PictureSizes } :
            n \in 0..MaxLineBytes }

\* Before parse_block is called with a block of the track.
InitVob ==
    /\ component = "vob"
    /\ pc = "start"
    /\ num_subtitles = 0
    /\ args = <<>>
    /\ returned = None
    /\ reader = 0
    /\ sequence = None
    /\ nibble_reader = 0
    /\ field_pixels = <<>>
    /\ fields = <<>>
    /\ interlaced = <<>>
    /\ line_index = 0
    /\ MatchIdle
    /\ TextIdle
    /\ FileIdle
    /\ BitmapIdle
    /\ TaskIdle

\* The panic of an unwrap, an expect, an assert or an index.
VobPanics ==
    /\ pc' = "panicked"
    /\ UNCHANGED <<reader, sequence, nibble_reader, field_pixels, fields, interlaced, line_index, returned>>

\* The call of decode_block with a block, up to the command sequences
\* (vob/mod.rs:134-147).
ReadPacket ==
    /\ component = "vob" /\ pc = "start"
    /\ \E block_data \in CommandBlocks \cup FieldBlocks :
         LET subtitle_packet_size == read_u16(block_data, 0)
             data_packet_size == read_u16(block_data, 2)
         IN /\ args' = block_data
            /\ IF \/ subtitle_packet_size = None
                  \/ Len(block_data) # subtitle_packet_size[1]
                  \/ data_packet_size = None
                  \/ data_packet_size[1] < 4
                  \/ read_exact(block_data, 4, data_packet_size[1] - 4) = None
               THEN VobPanics
               ELSE /\ reader' = data_packet_size[1]
                    /\ pc' = "sequence"
                    /\ UNCHANGED <<sequence, nibble_reader, field_pixels, fields, interlaced, line_index, returned>>
    /\ UNCHANGED <<component, num_subtitles, matchVars, textVars, fileVars,
                   bitmapVars, taskVars>>

\* The start of a command sequence (vob/mod.rs:151-162).
ReadSequence ==
    /\ component = "vob" /\ pc = "sequence"
    /\ LET next_seq_position == read_u16(args, reader + 2)
       IN IF next_seq_position = None THEN VobPanics
          ELSE /\ sequence' = Some(NewSequence(reader, next_seq_position[1]))
               /\ reader' = reader + 4
               /\ pc' = "commands"
               /\ UNCHANGED <<nibble_reader, field_pixels, fields, interlaced, line_index, returned>>
    /\ UNCHANGED <<component, num_subtitles, args, matchVars, textVars, fileVars,
                   bitmapVars, taskVars>>

\* One turn of the command loop (vob/mod.rs:164-207) for a command that is
\* not 0xFF.
ReadCommand ==
    /\ component = "vob" /\ pc = "commands"
    /\ read_u8(args, reader) # Some(255)
    /\ LET command_type == read_u8(args, reader)
           data == read_exact(args, reader + 1, CommandLength(command_type[1]) - 1)
           data_packet_data == SubSeq(args, 5, read_u16(args, 2)[1])
           first_line_position == data[1][1] * 256 + data[1][2] - 4
           second_line_position == data[1][3] * 256 + data[1][4] - 4
           x == parse_two_u12(SubSeq(data[1], 1, 3))
           y == parse_two_u12(SubSeq(data[1], 4, 6))
           size == compute_size(x[1], x[2], y[1], y[2])
           Set(s) == /\ sequence' = Some(s)
                     /\ reader' = reader + CommandLength(command_type[1])
                     /\ UNCHANGED <<pc, nibble_reader, field_pixels, fields, interlaced, line_index, returned>>
           s == sequence[1]
       IN IF command_type = None THEN VobPanics
          ELSE IF command_type[1] \in {0, 1, 2} THEN Set(s)
          ELSE IF command_type[1] \notin {3, 4, 5, 6} \/ data = None THEN VobPanics
          ELSE CASE command_type[1] = 3 ->
                      Set([s EXCEPT !.current_color_palette = Some(read_four_nibbles(data[1]))])
                 [] command_type[1] = 4 ->
                      Set([s EXCEPT !.current_alpha_palette = Some(read_four_nibbles(data[1]))])
                 [] command_type[1] = 5 ->
                      IF size.overflow
                      THEN \/ VobPanics
                           \/ Set([s EXCEPT !.size = Some(<<size.width, size.height>>)])
                      ELSE Set([s EXCEPT !.size = Some(<<size.width, size.height>>)])
                 [] OTHER ->
                      IF \/ first_line_position < 0
                         \/ first_line_position > second_line_position
                         \/ second_line_position > Len(data_packet_data)
                      THEN VobPanics
                      ELSE Set([s EXCEPT !.interlaced_data =
                                   Some(<<SubSeq(data_packet_data, first_line_position + 1,
                                                 second_line_position),
                                          SubSeq(data_packet_data, second_line_position + 1,
                                                 Len(data_packet_data))>>)])
    /\ UNCHANGED <<component, num_subtitles, args, matchVars, textVars, fileVars,
                   bitmapVars, taskVars>>

\* The command 0xFF and what follows the command loop (vob/mod.rs:201-230):
\* with image data the expects and build_subpalette, then the decode of the
\* fields; without, the end of the block or the next sequence.
EndSequence ==
    /\ component = "vob" /\ pc = "commands"
    /\ read_u8(args, reader) = Some(255)
    /\ LET s == sequence[1]
           palette == build_subpalette(IdxPalette, s.current_color_palette[1],
                                       s.current_alpha_palette[1])
       IN IF s.interlaced_data # None
          THEN IF \/ s.current_color_palette = None
                  \/ s.current_alpha_palette = None
                  \/ palette.panic
                  \/ s.size = None
               THEN VobPanics
               ELSE /\ sequence' = Some([s EXCEPT !.palette = palette.subpalette])
                    /\ reader' = reader + CommandLength(255)
                    /\ pc' = "even"
                    /\ UNCHANGED <<nibble_reader, field_pixels, fields, interlaced, line_index, returned>>
          ELSE /\ reader' = reader + CommandLength(255)
               /\ pc' = IF s.current_sequence_position = s.next_seq_position
                        THEN "done" ELSE "sequence"
               /\ UNCHANGED <<sequence, nibble_reader, field_pixels, fields, interlaced, line_index, returned>>
    /\ UNCHANGED <<component, num_subtitles, args, matchVars, textVars, fileVars,
                   bitmapVars, taskVars>>

\* A colour taken at the index itself.
PaletteColorUnreversed(palette, color) == palette[color + 1]

\* palette[3 - color]
PaletteColor(palette, color) == palette[(3 - color) + 1]

\* The field decode_image is working on: its data and its height.
FieldData == IF pc = "even" THEN sequence[1].interlaced_data[1][1]
             ELSE sequence[1].interlaced_data[1][2]
FieldHeight == IF pc = "even" THEN EvenFieldHeight(sequence[1].size[1][2])
               ELSE OddFieldHeight(sequence[1].size[1][2])

\* One turn of the loop of decode_image (vob/mod.rs:288-375); when the loop
\* ends, the bytes of the field (vob/mod.rs:377-384) and the next field.
DecodeRun ==
    /\ component = "vob" /\ pc \in {"even", "odd"}
    /\ LET width == sequence[1].size[1][1]
           total_pixels == width * FieldHeight
           run == ReadRun(FieldData, nibble_reader, width, Len(field_pixels))
           more == field_pixels
                   \o [i \in 1..run.num_pixels |-> PaletteColor(sequence[1].palette, run.color)]
           Break == /\ fields' = Append(fields, ToBytes(field_pixels))
                    /\ field_pixels' = <<>>
                    /\ nibble_reader' = 0
                    /\ pc' = IF pc = "even" THEN "odd" ELSE "interlace"
                    /\ UNCHANGED <<reader, sequence, interlaced, line_index, returned>>
       IN IF Len(field_pixels) = total_pixels THEN Break
          ELSE IF Len(field_pixels) > total_pixels THEN VobPanics
          ELSE CASE run.status = "eof" -> Break
                 [] run.status = "panic" -> VobPanics
                 [] OTHER ->
                      /\ field_pixels' = more
                      /\ nibble_reader' = IF Len(more) % width = 0
                                          THEN round_to_next_byte(run.pos) ELSE run.pos
                      /\ UNCHANGED <<pc, reader, sequence, fields, interlaced, line_index, returned>>
    /\ UNCHANGED <<component, num_subtitles, args, matchVars, textVars, fileVars,
                   bitmapVars, taskVars>>

\* The start of interlace_image (vob/mod.rs:262-267): the zeroed `bytes`
\* and the assert on the lengths of the fields; chunks(0) panics.
StartInterlace ==
    /\ component = "vob" /\ pc = "interlace"
    /\ LET size == sequence[1].size[1]
           bytes == Zeros(size[1] * size[2] * 4)
       IN IF Len(fields[1]) + Len(fields[2]) > Len(bytes) \/ size[1] = 0
          THEN VobPanics
          ELSE /\ interlaced' = bytes
               /\ line_index' = 0
               /\ pc' = "weave_even"
               /\ UNCHANGED <<reader, sequence, nibble_reader, field_pixels, fields, returned>>
    /\ UNCHANGED <<component, num_subtitles, args, matchVars, textVars, fileVars,
                   bitmapVars, taskVars>>

\* One turn of one of the two loops of interlace_image (vob/mod.rs:268-279):
\* the line is copied to its row; after the last even line the odd lines
\* follow, after the last odd line decode_block returns (vob/mod.rs:225).
WeaveLine ==
    /\ component = "vob" /\ pc \in {"weave_even", "weave_odd"}
    /\ LET size == sequence[1].size[1]
           stride == size[1] * 4
           lines == chunks(IF pc = "weave_even" THEN fields[1] ELSE fields[2], stride)
           at == IF pc = "weave_even" THEN (line_index * 2) * stride
                 ELSE ((line_index * 2) + 1) * stride
           interlaced_index == IF pc = "weave_odd" /\ at = Len(interlaced) THEN at - stride
                               ELSE at
       IN IF line_index >= Len(lines)
          THEN IF pc = "weave_even"
               THEN /\ pc' = "weave_odd"
                    /\ line_index' = 0
                    /\ UNCHANGED <<reader, sequence, nibble_reader, field_pixels, fields,
                                   interlaced, returned>>
               ELSE /\ pc' = "done"
                    /\ returned' = Some(<<interlaced, size[1], size[2]>>)
                    /\ UNCHANGED <<reader, sequence, nibble_reader, field_pixels, fields,
                                   interlaced, line_index>>
          ELSE IF interlaced_index + stride > Len(interlaced) \/ Len(lines[line_index + 1]) # stride
               THEN VobPanics
               ELSE /\ interlaced' = [k \in 1..Len(interlaced) |->
                                    IF k > interlaced_index /\ k <= interlaced_index + stride
                                    THEN lines[line_index + 1][k - interlaced_index] ELSE interlaced[k]]
                    /\ line_index' = line_index + 1
                    /\ UNCHANGED <<pc, reader, sequence, nibble_reader, field_pixels, fields,
                                   returned>>
    /\ UNCHANGED <<component, num_subtitles, args, matchVars, textVars, fileVars,
                   bitmapVars, taskVars>>

NextVob ==
    \/ ReadPacket \/ ReadSequence \/ ReadCommand \/ EndSequence \/ DecodeRun
    \/ StartInterlace \/ WeaveLine

SpecVob == InitVob /\ [][NextVob]_vars

\* The decode runs on while it can: nothing else is scheduled in its thread.
FairSpecVob == SpecVob /\ WF_vars(NextVob)

(***************************************************************************)
(* The idx text of a VOB track: vob/mod.rs, mkv.rs                         *)
(***************************************************************************)

\* str::lines: the pieces that end at a line feed or at the end of the
\* text, without the line feed and without a carriage return before it.
str_lines(s) ==
    LET ends == { k \in 1..Len(s) : s[k] = 10 }
        End(j) == CHOOSE k \in ends : Cardinality({ e \in ends : e <= k }) = j
        n == Cardinality(ends) + (IF s # <<>> /\ s[Len(s)] # 10 THEN 1 ELSE 0)
        Piece(j) == SubSeq(s, IF j = 1 THEN 1 ELSE End(j - 1) + 1,
                           IF j <= Cardinality(ends) THEN End(j) - 1 ELSE Len(s))
    IN [j \in 1..n |->
           IF Piece(j) # <<>> /\ Piece(j)[Len(Piece(j))] = 13
           THEN SubSeq(Piece(j), 1, Len(Piece(j)) - 1) ELSE Piece(j)]

\* str::split_once on a char: the text before and after its first occurrence.
split_once(s, c) ==
    LET at == find(s, <<c>>, 1)
    IN IF at = 0 THEN None ELSE Some(<<SubSeq(s, 1, at - 1), SubSeq(s, at + 1, Len(s))>>)

\* char::to_digit(radix): the digit's value, or -1.
ToDigit(c, radix) ==
    LET v == IF c >= 48 /\ c <= 57 THEN c - 48
             ELSE IF c >= 97 /\ c <= 122 THEN c - 97 + 10
             ELSE IF c >= 65 /\ c <= 90 THEN c - 65 + 10
             ELSE -1
    IN IF v < radix THEN v ELSE -1

\* The digits of from_str_radix, most significant first, on the value so far.
RECURSIVE ParseDigits(_, _, _, _)
ParseDigits(digits, radix, max, value) ==
    IF digits = <<>> THEN Some(value)
    ELSE IF ToDigit(digits[1], radix) < 0 THEN None
    ELSE IF value * radix + ToDigit(digits[1], radix) > max THEN None
    ELSE ParseDigits(Tail(digits), radix, max, value * radix + ToDigit(digits[1], radix))

\* uN::from_str_radix for an unsigned type of largest value `max`: one
\* leading '+' is taken as a sign, an empty text or a lone sign is an error.
from_str_radix(src, radix, max) ==
    IF src = <<>> THEN None
    ELSE IF src[1] = 43 THEN (IF Len(src) = 1 THEN None
                              ELSE ParseDigits(Tail(src), radix, max, 0))
    ELSE ParseDigits(src, radix, max, 0)

\* The loop over color_strs (mkv.rs:83-100, vob/mod.rs:42-59): the colours,
\* or the panic of the assert or of an unwrap.
RECURSIVE ParseColors(_, _, _)
ParseColors(color_strs, i, colors) ==
    IF i > Len(color_strs) THEN [panic |-> FALSE, colors |-> colors]
    ELSE LET color_str == color_strs[i]
             r == from_str_radix(SubSeq(color_str, 1, 2), 16, 255)
             g == from_str_radix(SubSeq(color_str, 3, 4), 16, 255)
             b == from_str_radix(SubSeq(color_str, 5, 6), 16, 255)
         IN IF Len(color_str) # 6 \/ r = None \/ g = None \/ b = None
            THEN [panic |-> TRUE, colors |-> colors]
            ELSE ParseColors(color_strs, i + 1, Append(colors, Color(255, r[1], g[1], b[1])))

\* The words "size" and "palette".
SizeName == <<115, 105, 122, 101>>
PaletteName == <<112, 97, 108, 101, 116, 116, 101>>

\* The loop over the lines of the idx text from line i on (mkv.rs:65-106,
\* vob/mod.rs:23-68), with the size and the palette found so far.
\* The width and the height are u32: texts of up to nine decimal digits never
\* overflow, and a longer text is read as an overflow.
RECURSIVE IdxLoop(_, _, _, _)
IdxLoop(idx_lines, i, size, palette) ==
    IF i > Len(idx_lines) THEN [panic |-> FALSE, size |-> size, palette |-> palette]
    ELSE LET line == idx_lines[i]
             pair == split_once(line, 58)
             value == trim(pair[1][2])
             wh == split_once(value, 120)
             width == from_str_radix(wh[1][1], 10, 999999999)
             height == from_str_radix(wh[1][2], 10, 999999999)
             colors == ParseColors(split(value, <<44, 32>>), 1, <<>>)
             Panic == [panic |-> TRUE, size |-> size, palette |-> palette]
         IN IF line # <<>> /\ line[1] = 35 THEN IdxLoop(idx_lines, i + 1, size, palette)
            ELSE IF pair = None THEN IdxLoop(idx_lines, i + 1, size, palette)
            ELSE IF pair[1][1] = SizeName
                 THEN IF wh = None THEN Panic
                      ELSE IF width = None \/ height = None THEN Panic
                      ELSE IdxLoop(idx_lines, i + 1, Some(<<width[1], height[1]>>), palette)
            ELSE IF pair[1][1] = PaletteName
                 THEN IF colors.panic THEN Panic
                      ELSE IdxLoop(idx_lines, i + 1, size, Some(colors.colors))
            ELSE IdxLoop(idx_lines, i + 1, size, palette)

\* The two expects and KnownEncoding::VOB (mkv.rs:109-116, vob/mod.rs:70-77).
VobEncoding(found) ==
    IF found.panic \/ found.size = None \/ found.palette = None
    THEN [panic |-> TRUE, encoding |-> None]
    ELSE [panic |-> FALSE,
          encoding |-> Some([tag |-> "VOB", width |-> found.size[1][1],
                             height |-> found.size[1][2], palette |-> found.palette[1]])]

\* vob::parse_idx: every line of the text goes through the loop.
parse_idx(data) == VobEncoding(IdxLoop(str_lines(data), 1, None, None))

\* KnownEncoding::from_tag_and_data with the idx text looked into: for
\* S_VOBSUB the first line is taken off with nth(0).unwrap() and only compared
\* with the v7 line.
from_tag_and_idx_data(tag, data) ==
    IF tag = "S_HDMV/PGS" THEN [panic |-> FALSE, encoding |-> Some([tag |-> "PGS"])]
    ELSE IF tag = "S_VOBSUB"
         THEN IF data = None \/ str_lines(data[1]) = <<>>
              THEN [panic |-> TRUE, encoding |-> None]
              ELSE VobEncoding(IdxLoop(str_lines(data[1]), 2, None, None))
    ELSE [panic |-> FALSE, encoding |-> Some([tag |-> "Unknown", codec |-> tag])]

\* Most lines of an idx text.
MaxIdxLines == 3

\* n colour strings "0000ff" joined with ", ".
RECURSIVE ColorList(_)
ColorList(n) ==
    IF n = 1 THEN <<48, 48, 48, 48, 102, 102>>
    ELSE <<48, 48, 48, 48, 102, 102, 44, 32>> \o ColorList(n - 1)

\* Lines of idx texts: "# v7", "size: 2x3", "size: 23", "langidx: 0",
\* "palette: " with 16 colours, with 1 colour, with 17 colours, with "+f0000",
\* with "0000f", with "0000fg", and "palette:0000ff,0000ff".
IdxLinePool ==
    LET p == PaletteName \o <<58, 32>>
    IN { <<35, 32, 118, 55>>, SizeName \o <<58, 32, 50, 120, 51>>,
         SizeName \o <<58, 32, 50, 51>>, <<108, 97, 110, 103, 105, 100, 120, 58, 32, 48>>,
         p \o ColorList(16), p \o ColorList(1), p \o ColorList(17),
         p \o <<43, 102, 48, 48, 48, 48>>, p \o <<48, 48, 48, 48, 102>>,
         p \o <<48, 48, 48, 48, 102, 103>>,
         PaletteName \o <<58, 48, 48, 48, 48, 102, 102, 44, 48, 48, 48, 48, 102, 102>> }

\* The text of the lines, each ended by a line feed.
RECURSIVE IdxText(_)
IdxText(idx_lines) ==
    IF idx_lines = <<>> THEN <<>> ELSE Head(idx_lines) \o LF \o IdxText(Tail(idx_lines))

CodecIds == { "S_VOBSUB", "S_HDMV/PGS", "S_TEXT/UTF8" }

\* Before the private data of a track is parsed.
InitIdx ==
    /\ component = "idx"
    /\ pc = "start"
    /\ num_subtitles = 0
    /\ \E n \in 0..MaxIdxLines : \E idx_lines \in [1..n -> IdxLinePool] :
         args = idx_lines
    /\ returned = None
    /\ MatchIdle
    /\ TextIdle
    /\ FileIdle
    /\ BitmapIdle
    /\ TaskIdle
    /\ VobIdle

\* vob::parse_idx on the text.
ParseIdx ==
    /\ component = "idx" /\ pc = "start"
    /\ LET r == parse_idx(IdxText(args))
       IN IF r.panic THEN pc' = "panicked" /\ UNCHANGED returned
          ELSE pc' = "done" /\ returned' = r.encoding
    /\ UNCHANGED <<component, num_subtitles, args, matchVars, textVars, fileVars,
                   bitmapVars, taskVars, vobVars>>

\* The TrackEntry handler's call of from_tag_and_data (mkv.rs:219), with or
\* without CodecPrivate.
FromTagAndData ==
    /\ component = "idx" /\ pc = "start"
    /\ \E tag \in CodecIds, data \in {None, Some(IdxText(args))} :
         LET r == from_tag_and_idx_data(tag, data)
         IN IF r.panic THEN pc' = "panicked" /\ UNCHANGED returned
            ELSE pc' = "done" /\ returned' = r.encoding
    /\ UNCHANGED <<component, num_subtitles, args, matchVars, textVars, fileVars,
                   bitmapVars, taskVars, vobVars>>

NextIdx == ParseIdx \/ FromTagAndData

SpecIdx == InitIdx /\ [][NextIdx]_vars

(***************************************************************************)
(* The choice of a track: mkv.rs                                           *)
(***************************************************************************)

\* MkvFile::block_iter_from_track_info: a block iterator on the track's
\* number, whatever the encoding.
block_iter_from_track_info(track_info) == Some(track_info.track_number)

\* MkvFile::block_iter
block_iter(infos, language) ==
    LET track == LastTrack(infos, {t \in Tracks(infos) : t.language = language}, None)
    IN IF track # None THEN block_iter_from_track_info(track[1]) ELSE None

\* Most tracks of a file whose track is chosen.
MaxTrackInfos == 3

\* Files whose tracks may share a number and a language.
InitSelect ==
    /\ component = "select"
    /\ pc = "start"
    /\ num_subtitles = 0
    /\ \E n \in 0..MaxTrackInfos :
         \E numbers \in [1..n -> 1..2] : \E langs \in [1..n -> Languages] :
            \E encs \in [1..n -> Encodings] :
               args = [i \in 1..n |-> TrackInfo(numbers[i], langs[i], encs[i])]
    /\ returned = None
    /\ MatchIdle
    /\ TextIdle
    /\ FileIdle
    /\ BitmapIdle
    /\ TaskIdle
    /\ VobIdle

\* load_first_n_subtitles without a track number (mkv.rs:426-428).
SubtitleIter ==
    /\ component = "select" /\ pc = "start"
    /\ \E language \in Languages :
         returned' = Some([by |-> "language", wanted |-> language,
                           track |-> subtitle_iter(args, language)])
    /\ pc' = "subtitle_iter"
    /\ UNCHANGED <<component, num_subtitles, args, matchVars, textVars, fileVars,
                   bitmapVars, taskVars, vobVars>>

\* load_first_n_subtitles with a track number (mkv.rs:424-425).
SubtitleIterFromTrackNumber ==
    /\ component = "select" /\ pc = "start"
    /\ \E number \in 1..2 :
         returned' = Some([by |-> "number", wanted |-> number,
                           track |-> subtitle_iter_from_track_number(args, number)])
    /\ pc' = "subtitle_iter"
    /\ UNCHANGED <<component, num_subtitles, args, matchVars, textVars, fileVars,
                   bitmapVars, taskVars, vobVars>>

\* dump_subtitle_block_data without a track number (main.rs:252-254).
BlockIter ==
    /\ component = "select" /\ pc = "start"
    /\ \E language \in Languages :
         returned' = Some([by |-> "language", wanted |-> language,
                           track |-> block_iter(args, language)])
    /\ pc' = "block_iter"
    /\ UNCHANGED <<component, num_subtitles, args, matchVars, textVars, fileVars,
                   bitmapVars, taskVars, vobVars>>

NextSelect == SubtitleIter \/ SubtitleIterFromTrackNumber \/ BlockIter

SpecSelect == InitSelect /\ [][NextSelect]_vars

(***************************************************************************)
(* Claims about the matching stage                                         *)
(***************************************************************************)

\* Position of a reference file in the supplied reference list.
RefIndex(ref_file) == CHOOSE j \in 1..Len(ref_subtitles) : ref_subtitles[j][1] = ref_file

Compared == component = "match" /\ pc \in {"compared", "mapped", "classified", "done"}
                                /\ subtitles # <<>>

\* C1: every pair of strings handed to levenshtein is the first L scalars of the
\* input text and the first L scalars of the reference text, where L is the
\* smaller of the two scalar counts (so both have exactly L scalars).
C1_TruncatedToShorterScalarCount ==
    \A k \in DOMAIN lev_calls :
        LET c == lev_calls[k]
            L == Min(Len(c.subtitle), Len(c.ref_subtitle))
        IN  /\ c.a = Take(c.subtitle, L)
            /\ c.b = Take(c.ref_subtitle, L)
            /\ Len(c.a) = L /\ Len(c.b) = L

\* C2: when compute_distances returns for a non-empty reference list, every input
\* file has a list with exactly one (ref_file, distance) entry per reference, the
\* distance being the one levenshtein gave for that pair; the list is ascending
\* by distance, and entries of equal distance are in the order the references
\* were supplied.
C2_RankingSortedStable ==
    (Compared /\ ref_subtitles # <<>>) =>
        \A i \in 1..Len(subtitles) :
            LET file == subtitles[i][1]
            IN  /\ file \in DOMAIN distances
                /\ Len(distances[file]) = Len(ref_subtitles)
                /\ \A j \in 1..Len(ref_subtitles) :
                      \E k \in 1..Len(distances[file]) :
                          /\ distances[file][k][1] = ref_subtitles[j][1]
                          /\ \A k2 \in 1..Len(distances[file]) :
                                distances[file][k2][1] = ref_subtitles[j][1] => k2 = k
                          /\ \E n \in DOMAIN lev_calls :
                                /\ lev_calls[n].file = file
                                /\ lev_calls[n].ref_file = ref_subtitles[j][1]
                                /\ distances[file][k][2] =
                                       levenshtein(lev_calls[n].a, lev_calls[n].b)
                /\ \A k1, k2 \in 1..Len(distances[file]) :
                      k1 < k2 =>
                          /\ distances[file][k1][2] <= distances[file][k2][2]
                          /\ distances[file][k1][2] = distances[file][k2][2]
                                => RefIndex(distances[file][k1][1])
                                     < RefIndex(distances[file][k2][1])

\* C2 witness: compute_distances has returned a list of three entries that the
\* sort reordered (the first reference supplied is ranked last) and that holds
\* a tie between the other two.
C2_Witness ==
    /\ Compared /\ Len(ref_subtitles) = 3
    /\ \E i \in 1..Len(subtitles) :
          LET d == distances[subtitles[i][1]]
          IN  /\ d[3][1] = ref_subtitles[1][1]
              /\ d[1][2] = d[2][2]
              /\ d[2][2] < d[3][2]

\* C3: with a max_distance m given on the command line, an input is in the
\* mappings only if its best distance is strictly less than m; with m = 0 no
\* input is mapped, every reference is unmapped and the run is high-confidence.
C3_MaxDistanceRespected ==
    (component = "match" /\ pc = "done" /\ subtitles # <<>> /\ cli_max # None) =>
        /\ \A k \in DOMAIN mappings : distances[mappings[k][1]][1][2] < cli_max[1]
        /\ cli_max = Some(0) =>
              /\ mappings = <<>>
              /\ unmapped = { ref_subtitles[j][1] : j \in 1..Len(ref_subtitles) }
              /\ is_high_confidence

\* The inputs that entered the mappings.
MappedInputs == { mappings[k][1] : k \in DOMAIN mappings }

\* Number of mapped inputs whose best (first-ranked) match is ref_file.
PickedBy(ref_file) ==
    Cardinality({ file \in MappedInputs : distances[file][1][1] = ref_file })

RECURSIVE SumPicked(_)
SumPicked(refs) == IF refs = <<>> THEN 0 ELSE PickedBy(Head(refs)[1]) + SumPicked(Tail(refs))

Classified == component = "match" /\ pc \in {"classified", "done"} /\ subtitles # <<>>

\* C4: after the mapping step every reference file is unmapped iff no mapped
\* input picked it, duplicate iff more than one did (and uniquely mapped
\* otherwise, iff exactly one did); the picks add up to the number of mappings;
\* the run is high-confidence iff there is no duplicate, and the rename script
\* is printed only then.
C4_ReferenceClasses ==
    Classified =>
        /\ \A j \in 1..Len(ref_subtitles) :
              LET r == ref_subtitles[j][1]
                  k == PickedBy(r)
                  dup == \E d \in DOMAIN duplicates : duplicates[d][1] = r
              IN  /\ (r \in unmapped) <=> (k = 0)
                  /\ dup <=> (k > 1)
                  /\ (r \notin unmapped /\ ~dup) <=> (k = 1)
                  /\ \A d \in DOMAIN duplicates : duplicates[d][1] = r => duplicates[d][2] = k
        /\ SumPicked(ref_subtitles) = Len(mappings)
        /\ is_high_confidence <=> (\A j \in 1..Len(ref_subtitles) : PickedBy(ref_subtitles[j][1]) <= 1)
        /\ "Rename script:" \in printed => is_high_confidence
        /\ pc = "done" => ("Rename script:" \in printed <=> is_high_confidence)

\* C4 witness: a finished run in which one reference was picked twice and
\* another was picked by no input.
C4_Witness ==
    /\ component = "match" /\ pc = "done"
    /\ duplicates # <<>> /\ unmapped # {}
    /\ Len(mappings) = 2

(***************************************************************************)
(* Claims about the text sanitiser                                         *)
(***************************************************************************)

\* C5: sanitize_text is idempotent: sanitising a sanitised text changes nothing.
C5_SanitizeIdempotent ==
    (component = "text" /\ pc = "resanitized") => resanitized = sanitized

RECURSIVE RemoveLetterLabels(_, _)
\* Removal of the matches of the documented pattern [A-Za-z]+: from position i on.
RemoveLetterLabels(s, i) ==
    IF i > Len(s) THEN <<>>
    ELSE LET ends == { j \in i..Len(s) :
                         /\ \A k \in i..j : IsAsciiLetter(s[k])
                         /\ j < Len(s) /\ s[j + 1] = 58 }
         IN  IF ends # {}
             THEN RemoveLetterLabels(s, (CHOOSE j \in ends : TRUE) + 2)
             ELSE <<s[i]>> \o RemoveLetterLabels(s, i + 1)

\* The documented pipeline: as sanitize_text, with the speaker labels [A-Za-z]+:
ReferenceSanitize(t) ==
    LET lowered == to_lowercase(t)
    IN  IF contains_any(lowered, BANNED_WORDS) THEN <<>>
        ELSE trim(remove_punctuation(
                RemoveLetterLabels(
                    RemoveEnclosed(
                        RemoveEnclosed(
                            RemoveEnclosed(lowered, 1, 60, 62),
                            1, 91, 93),
                        1, 40, 41),
                    1)))

\* C6: the speaker-label step removes exactly the runs of ASCII letters followed
\* by ':', so on every text without a banned substring sanitize_text gives what
\* the pipeline with the pattern [A-Za-z]+: gives.
C6_LabelsAreAsciiLetters ==
    (component = "text" /\ pc \in {"sanitized", "resanitized"}
        /\ ~contains_any(to_lowercase(text), BANNED_WORDS))
    => sanitized = ReferenceSanitize(text)

(***************************************************************************)
(* Claims about the per-file readers                                       *)
(***************************************************************************)

IsPrefix(a, b) == Len(a) <= Len(b) /\ SubSeq(b, 1, Len(a)) = a

\* The strings of the frames of an input file in block order, a frame that
\* fails to decode or to be read counting as a frame without text.
RECURSIVE FrameStrings(_)
FrameStrings(stream) ==
    IF stream = <<>> THEN <<>>
    ELSE LET b == Head(stream)
             here == IF b.parsed = "bitmap" /\ ~process_bitmap(b).err
                     THEN process_bitmap(b).text ELSE None
         IN here \o FrameStrings(Tail(stream))

\* Every string a file can give, in file order.
AllStrings ==
    IF component = "srt" THEN parse_n_subtitles(srt_data, Len(srt_data) + 1).subtitles
    ELSE FrameStrings(blocks)

\* C7: for every requested count N >= 0, the list a reader returns for one
\* file (parse_n_subtitles for a reference file, get_first_n_subtitles for an
\* input file) holds at most N strings, every one non-empty, in file order.
C7_AtMostNStrings ==
    (component \in {"srt", "mkv"} /\ pc = "done") =>
        /\ Len(collected) <= num_subtitles
        /\ \A i \in 1..Len(collected) : collected[i] # <<>>
        /\ IsPrefix(collected, AllStrings)

\* C8: a block that cannot be decoded, or a bitmap the OCR engine fails on,
\* is skipped like a frame without text: the file's processing is not ended
\* by it and the later frames still give their strings.
C8_FrameFailureIsolated ==
    (component = "mkv" /\ iter # None /\ num_subtitles >= 1
       /\ pc \in {"done", "panicked"}) =>
        /\ pc = "done"
        /\ collected = SubSeq(FrameStrings(blocks), 1,
                              Min(num_subtitles, Len(FrameStrings(blocks))))

\* The track the request designates: the last one with the number given by
\* -t, or else the last English one.
SelectedTrack ==
    IF track_number # None
    THEN LastTrack(track_infos,
                   {t \in Tracks(track_infos) : t.track_number = track_number[1]}, None)
    ELSE LastTrack(track_infos, {t \in Tracks(track_infos) : t.language = "English"}, None)

DecoderOf(encoding) ==
    CASE encoding = "PGS" -> "pgs::parse_segments"
      [] encoding = "VOB" -> "vob::parse_block"
      [] OTHER -> "none"

\* C9: decoding dispatches on the selected track's encoding: a VOB track gets
\* a subtitle iterator like a PGS track and each of its blocks goes to the VOB
\* block parser, as a PGS track's go to the PGS segment parser; only a track
\* of another encoding gives no iterator.
C9_DispatchOnEncoding ==
    (component = "mkv" /\ pc # "start" /\ SelectedTrack # None) =>
        LET t == SelectedTrack[1]
            mine == SelectSeq(SubSeq(blocks, 1, block_pos),
                              LAMBDA b : b.track = t.track_number)
        IN /\ (iter = None) <=> (t.encoding = "Other")
           /\ pc = "done" => decoded_with = [i \in 1..Len(mine) |-> DecoderOf(t.encoding)]

(***************************************************************************)
(* Claims about the bitmap decoders                                        *)
(***************************************************************************)

\* C10: every bitmap the PGS decoder or the VOB decoder returns has a pixel
\* buffer of exactly width * height * 4 bytes, for the width and height that
\* come with it; so has the image decode_block hands to parse_block.
C10_BufferIsWidthHeight4 ==
    /\ bitmap # None =>
         /\ Len(bitmap[1].pixels) = bitmap[1].width * bitmap[1].height * 4
         /\ bitmap[1].width = frame.width /\ bitmap[1].height = frame.height
    /\ decoded # None => Len(decoded[1][1]) = decoded[1][2] * decoded[1][3] * 4

\* A VOB bitmap of odd height whose two fields together are a row short of
\* the image: one pixel wide, three high, one line decoded for each field.
C10_Witness ==
    /\ component = "bitmap" /\ pc = "done" /\ bitmap # None
    /\ frame.codec = "VOB" /\ frame.width = 1 /\ frame.height = 3
    /\ frame.even_data = <<68>> /\ frame.odd_data = <<68>>
    /\ Len(bitmap[1].pixels) = 12

(***************************************************************************)
(* Claims about the VOB decoder                                            *)
(***************************************************************************)

\* C11: parse_two_u12 maps the three bytes (b0, b1, b2) to the two 12-bit
\* values (b0 * 16 + (b1 >> 4), (b1 & 0x0F) * 256 + b2), both in 0..4095;
\* the bytes 00 02 CF give (0x000, 0x2CF), 00 22 3E give (0x002, 0x23E),
\* 0E A1 E1 give (0x0EA, 0x1E1) and 1A 01 BB give (0x1A0, 0x1BB).
C11_TwoU12 ==
    (component = "u12" /\ pc = "done") =>
        LET b0 == args[1]
            b1 == args[2]
            b2 == args[3]
            v == returned[1]
        IN /\ v = << b0 * 16 + (b1 \div 16), (b1 % 16) * 256 + b2 >>
           /\ v[1] \in 0..4095 /\ v[2] \in 0..4095
           /\ args = <<0, 2, 207>> => v = <<0, 719>>
           /\ args = <<0, 34, 62>> => v = <<2, 574>>
           /\ args = <<14, 161, 225>> => v = <<234, 481>>
           /\ args = <<26, 1, 187>> => v = <<416, 443>>

\* The second example's first triple has been parsed.
C11_Witness ==
    component = "u12" /\ pc = "done" /\ args = <<14, 161, 225>> /\ returned = Some(<<234, 481>>)

(***************************************************************************)
(* Claims about truncated texts                                            *)
(***************************************************************************)

\* C12: for texts s and r and lengths L <= L' not above either length, the
\* distance d_L of the first L characters of s and of r is at most the
\* distance d_L' of the first L' characters plus (L' - L).
C12_PrefixMonotone ==
    (component = "prefix" /\ pc = "done") =>
        returned[1][1] <= returned[1][2] + (args.longer - args.shorter)

\* "aba" and "bab" at lengths 1 and 3: distances 1 and 2.
C12_Witness ==
    /\ component = "prefix" /\ pc = "done"
    /\ args.subtitle = <<97, 98, 97>> /\ args.ref_subtitle = <<98, 97, 98>>
    /\ args.shorter = 1 /\ args.longer = 3
    /\ returned = Some(<<1, 2>>)

(***************************************************************************)
(* Claims about the container reader                                       *)
(***************************************************************************)

\* The values of the children of the entry with the given tag, in order.
ValuesOf(tag) ==
    LET of == SelectSeq(args, LAMBDA c : c.tag = tag)
    IN [i \in 1..Len(of) |-> of[i].data.utf8]

\* "en", "eng" and "en-US" fold to English, every other tag to Unknown(tag).
Folded(tag) ==
    IF tag = "en" \/ tag = "eng" \/ tag = "en-US" THEN <<"English">> ELSE <<"Unknown", tag>>

\* C13: a subtitle track whose entry has a Language and a LanguageIETF child,
\* in either order, takes its language from the LanguageIETF value; with a
\* Language child only it takes it from the Language value; "en", "eng" and
\* "en-US" fold to English and every other value to Unknown with the tag.
C13_LanguagePrefersIETF ==
    (component = "track_entry" /\ pc = "done" /\ returned[1] # None) =>
        LET track == returned[1][1]
        IN /\ (Len(ValuesOf("Language")) = 1 /\ Len(ValuesOf("LanguageIETF")) = 1) =>
                 track.language = Folded(ValuesOf("LanguageIETF")[1])
           /\ (Len(ValuesOf("Language")) = 1 /\ Len(ValuesOf("LanguageIETF")) = 0) =>
                 track.language = Folded(ValuesOf("Language")[1])

\* An entry whose LanguageIETF child "en-US" comes before its Language child
\* "fr": the track is English.
C13_Witness ==
    /\ component = "track_entry" /\ pc = "done" /\ returned[1] # None
    /\ \E i, j \in 1..Len(args) :
          /\ i < j
          /\ args[i] = Child("LanguageIETF", Utf8("en-US"))
          /\ args[j] = Child("Language", Utf8("fr"))
    /\ returned[1][1].language = <<"English">>

\* The number of tags of the prelude: up to and with the first Tracks tag
\* that has the entry of a subtitle track before it, or the whole stream.
PreludeEnd ==
    LET ends == { p \in 1..Len(args) :
                    /\ args[p].spec_tag = "Tracks"
                    /\ \E q \in 1..(p - 1) : /\ args[q].spec_tag = "TrackEntry"
                                             /\ track_entry(args[q].children) # None }
    IN IF ends = {} THEN Len(args) ELSE CHOOSE p \in ends : \A q \in ends : p <= q

\* The positions up to `last` of the blocks after the prelude that belong to
\* the chosen track, in stream order.
BlocksOfTrack(last) ==
    SelectSeq([p \in 1..last |-> p],
              LAMBDA p : /\ p > PreludeEnd
                         /\ args[p].spec_tag \in {"Block", "SimpleBlock"}
                         /\ args[p].track = track_number[1])

\* C14: the block iterator of a chosen track yields exactly the Block and
\* SimpleBlock elements after the tracks prelude that belong to that track,
\* each once and in stream order, never a block of another track, and
\* nothing more once it has returned the end of the stream.
C14_BlocksOfTrackInOrder ==
    (component = "blocks" /\ pc \in {"iterating", "ended", "ended_again"}) =>
        /\ collected = BlocksOfTrack(block_pos)
        /\ pc \in {"ended", "ended_again"} => collected = BlocksOfTrack(Len(args))

\* The iterator has ended, and been called once more, after passing over a
\* block of track 2 and yielding two blocks of track 1.
C14_Witness ==
    /\ component = "blocks" /\ pc = "ended_again"
    /\ Len(collected) = 2
    /\ \E p \in collected[1]..collected[2] : args[p] = BlockTag("Block", 2)

(***************************************************************************)
(* Claims about the per-file tasks                                         *)
(***************************************************************************)

\* What processing one file alone gives.
Alone(i) == LoadFile(args.kind, args.paths[i], num_subtitles)

\* The files that have an entry in the result: those of the right extension
\* whose string list is not empty.
WithEntry ==
    SelectSeq([i \in 1..Len(args.paths) |-> i],
              LAMBDA i : /\ args.paths[i].ext = args.kind
                         /\ Alone(i).loaded # None /\ Alone(i).loaded[1] # <<>>)

\* C15: whatever the interleaving of the per-file tasks of a directory, the
\* collected result holds one (path, strings) entry for each file of the
\* right extension whose string list is not empty and none for another file,
\* each entry being what the file gives alone, in the order of the paths: it
\* does not depend on the schedule.
C15_ResultIndependentOfSchedule ==
    (component = "tasks" /\ pc = "collected") =>
        returned[1] = [k \in 1..Len(WithEntry) |->
                          <<WithEntry[k], Alone(WithEntry[k]).loaded[1]>>]

\* Two files with strings whose tasks ended in the other order than their
\* paths, and the result collected.
C15_Witness ==
    /\ component = "tasks" /\ pc = "collected"
    /\ Len(returned[1]) >= 2
    /\ \E k \in 1..(Len(finished) - 1) : finished[k] > finished[k + 1]
    /\ \E i \in 1..Len(args.paths) : i \notin { WithEntry[k] : k \in 1..Len(WithEntry) }

(***************************************************************************)
(* Claims about the PGS decoder                                            *)
(***************************************************************************)

\* C16: the colour of a palette entry (Y, Cr, Cb, A) is
\* R = 1.164(Y-16) + 1.793(Cr-128),
\* G = 1.164(Y-16) - 0.213(Cb-128) - 0.533(Cr-128),
\* B = 1.164(Y-16) + 2.112(Cb-128), the subtractions wrapping modulo 256 and
\* each channel clamped to 0..255, with the alpha of the entry.
C16_GreenSecondBlueThird ==
    (component = "palette" /\ pc = "done") =>
        LET y == wrapping_sub(args.luminance, 16)
            cb == wrapping_sub(args.color_difference_blue, 128)
            cr == wrapping_sub(args.color_difference_red, 128)
        IN returned[1].color =
             Color(args.alpha,
                   AsU8(1164 * y + 1793 * cr),
                   AsU8(1164 * y - 213 * cb - 533 * cr),
                   AsU8(1164 * y + 2112 * cb))

\* The run-length grammar: the token that starts at the 1-based index i of
\* body, as <<kind, colour, length, bytes used>>.
GrammarToken(body, i) ==
    LET c == body[i]
        n == body[i + 1]
        low == n % 64
    IN IF c # 0 THEN <<"run", c, 1, 1>>
       ELSE IF n = 0 THEN <<"end", 0, 0, 2>>
       ELSE CASE n \div 64 = 0 -> <<"run", 0, low, 2>>
              [] n \div 64 = 1 -> <<"run", 0, low * 256 + body[i + 2], 3>>
              [] n \div 64 = 2 -> <<"run", body[i + 2], low, 3>>
              [] OTHER         -> <<"run", body[i + 3], low * 256 + body[i + 2], 4>>

\* The rows of the tokens of body from index i on, in stream order.
RECURSIVE GrammarRows(_, _, _)
GrammarRows(body, i, row) ==
    IF i > Len(body) THEN <<>>
    ELSE LET t == GrammarToken(body, i)
         IN IF t[1] = "end" THEN <<row>> \o GrammarRows(body, i + t[4], <<>>)
            ELSE GrammarRows(body, i + t[4], Append(row, <<t[2], t[3]>>))

\* C17: read_object_def_segment decodes the object body by the run-length
\* grammar: a non-zero byte c is a run (c, 1); 0x00 n with n # 0 is, by the
\* top two bits of n, (0, n & 0x3F), (0, (n & 0x3F) << 8 | next),
\* (next, n & 0x3F) or ((n & 0x3F) << 8 | next, then the colour); 0x00 0x00
\* ends the row; rows and runs come out in stream order.
C17_RunLengthGrammar ==
    (component = "object" /\ pc = "done") => returned[1] = GrammarRows(args, 1, <<>>)

\* A row of two runs, one of them from a 0x00 escape with a colour and a
\* length above one.
C17_Witness ==
    /\ component = "object" /\ pc = "done"
    /\ \E k \in 1..Len(returned[1]) :
         /\ Len(returned[1][k]) >= 2
         /\ \E j \in 1..Len(returned[1][k]) :
              returned[1][k][j][1] # 0 /\ returned[1][k][j][2] > 1

\* The sum of the run lengths of a row.
RECURSIVE RowSum(_)
RowSum(line) == IF line = <<>> THEN 0 ELSE Head(line)[2] + RowSum(Tail(line))

\* C18: for every row the PGS decoder writes into a bitmap, the run lengths
\* of the row sum to the width of the object, so the pixels of row k are at
\* the positions k * width .. (k + 1) * width - 1 of the bitmap and nothing
\* is written at or after width * height.
C18_RowsSumToWidth ==
    (component = "bitmap" /\ frame.codec = "PGS" /\ pc = "done") =>
        LET lines == frame.color_data_lines
            width == frame.width
        IN \A k \in 1..Len(lines) :
             /\ RowSum(lines[k]) = width
             /\ k * width * 4 <= Len(bitmap[1].pixels)
             /\ SubSeq(bitmap[1].pixels, (k - 1) * width * 4 + 1, k * width * 4)
                  = ToBytes(RunPixels(lines[k], PaletteData))

\* The objects of a block that have a palette before them, and the most
\* recent palette before segment j.
ObjectsWithPalette(data) ==
    { j \in 1..Len(data) : /\ data[j].ty = "ObjDataDef"
                           /\ \E i \in 1..(j - 1) : data[i].ty = "PaletteDef" }

PaletteBefore(data, j) ==
    LET i == CHOOSE i \in 1..(j - 1) :
                 /\ data[i].ty = "PaletteDef"
                 /\ \A m \in (i + 1)..(j - 1) : data[m].ty # "PaletteDef"
    IN Converted(data[i].payload)

\* The bitmap of the object of segment j drawn with palette_data.
BitmapOf(data, j, palette_data) ==
    LET object == data[j].payload
        pixels == [p \in 1..(object.width * object.height) |->
                       palette_data[1].color]
    IN Some([width |-> object.width, height |-> object.height, pixels |-> ToBytes(pixels)])

\* C19: within a block an object is decoded only with the most recent palette
\* that came earlier in the same block, none being carried over from the
\* block before; an object before any palette of the block is skipped; the
\* first object decoded ends the parsing, whatever follows it; without a
\* decoded object the result is no bitmap.
C19_FirstObjectWithLatestPalette ==
    component = "segments" =>
        \A b \in 1..Len(returned) :
            LET data == args[b]
                result == returned[b]
                first == CHOOSE j \in ObjectsWithPalette(data) :
                             \A m \in ObjectsWithPalette(data) : j <= m
            IN /\ result.status = "some" =>
                    /\ ObjectsWithPalette(data) # {}
                    /\ result.bitmap = BitmapOf(data, first, PaletteBefore(data, first))
               /\ result.status = "none" => ObjectsWithPalette(data) = {}
               /\ (ObjectsWithPalette(data) = {} /\ \A k \in 1..Len(data) : data[k].ty # "WindowDef")
                    => result.status = "none"
               /\ (/\ ObjectsWithPalette(data) # {}
                   /\ \A k \in 1..(first - 1) : data[k].ty # "WindowDef")
                    => result.status \in {"some", "err"}

\* After a block with a palette, a block with an object, then a palette, then
\* an object that is decoded.
C19_Witness ==
    /\ component = "segments" /\ pc = "done"
    /\ Len(args) = 2
    /\ returned[2].status = "some"
    /\ Len(args[2]) = 3
    /\ args[2][1].ty = "ObjDataDef"
    /\ args[2][2].ty = "PaletteDef"
    /\ args[2][2].payload # args[1][1].payload

(***************************************************************************)
(* Claims about the fields of a VOB subpicture                             *)
(***************************************************************************)

\* C20: in the VOB block decode of a subpicture of height h the even field is
\* decoded for ceil(h / 2) lines and the odd field for floor(h / 2) lines, so
\* for odd h the even field has the extra row; the image is the weave of the
\* two fields so decoded.
C20_EvenFieldHasExtraRow ==
    (component = "bitmap" /\ frame.codec = "VOB" /\ decoded # None) =>
        LET h == frame.height
            even == vob_decode_image(frame.even_data, frame.width, (h + 1) \div 2, SubPalette)
            odd == vob_decode_image(frame.odd_data, frame.width, h \div 2, SubPalette)
        IN /\ EvenFieldHeight(h) = (h + 1) \div 2
           /\ OddFieldHeight(h) = h \div 2
           /\ decoded[1][1] = interlace_image(even.bytes, odd.bytes, frame.width, h).bytes

\* The lines of the two fields that decode_block gives to interlace_image for
\* the frame, and row r of the decoded image.
EvenLines ==
    chunks(vob_decode_image(frame.even_data, frame.width, EvenFieldHeight(frame.height),
                            SubPalette).bytes, frame.width * 4)

OddLines ==
    chunks(vob_decode_image(frame.odd_data, frame.width, OddFieldHeight(frame.height),
                            SubPalette).bytes, frame.width * 4)

ImageRow(r) == SubSeq(decoded[1][1], r * frame.width * 4 + 1, (r + 1) * frame.width * 4)

\* C21: interlace_image writes line i of the even field to row 2i and line i
\* of the odd field to row 2i + 1, or to row height - 1 when 2i + 1 is the
\* height; the e even lines and o odd lines it is given have e + o equal to
\* height or height - 1; every write is inside the width * height * 4 buffer.
C21_WeaveAndLineCount ==
    (component = "bitmap" /\ frame.codec = "VOB" /\ decoded # None) =>
        /\ Len(decoded[1][1]) = frame.width * frame.height * 4
        /\ \A i \in 1..Len(EvenLines) :
             /\ 2 * (i - 1) < frame.height
             /\ ImageRow(2 * (i - 1)) = EvenLines[i]
        /\ \A i \in 1..Len(OddLines) :
             LET row == IF 2 * (i - 1) + 1 = frame.height THEN frame.height - 1
                        ELSE 2 * (i - 1) + 1
             IN row < frame.height /\ ImageRow(row) = OddLines[i]
        /\ Len(EvenLines) + Len(OddLines) \in { frame.height, frame.height - 1 }

(***************************************************************************)
(* Claims about the VOB subpalette                                         *)
(***************************************************************************)

\* min(a + 1, 16) * 255 / 16 rounded to the nearest integer.
RoundedAlpha(a) == (2 * Min(a + 1, 16) * 255 + 16) \div 32

\* C25: build_subpalette returns four colours; colour i is transparent black
\* when the alpha nibble a_i is 0, and else has the RGB of idx_palette[c_i]
\* and the alpha min(a_i + 1, 16) * 255 / 16 rounded to nearest.
C25_AlphaRoundedToNearest ==
    (component = "subpalette" /\ pc = "done") =>
        /\ Len(returned[1]) = 4
        /\ \A i \in 1..4 :
             LET a == args.alpha_info[i]
                 c == IdxPalette[args.color_info[i] + 1]
             IN returned[1][i] = IF a = 0 THEN Color(0, 0, 0, 0)
                                 ELSE Color(RoundedAlpha(a), c.R, c.G, c.B)

(***************************************************************************)
(* Claims about the decode of a VOB block                                  *)
(***************************************************************************)

\* The command sequence being read has image pointers, a size, a colour
\* palette and an alpha palette.
AllFourSet ==
    /\ sequence[1].interlaced_data # None
    /\ sequence[1].size # None
    /\ sequence[1].current_color_palette # None
    /\ sequence[1].current_alpha_palette # None

\* C22: at the 0xFF that ends a command sequence the block is decoded only
\* when image pointers, a size, a colour palette and an alpha palette are all
\* set; when one of them is missing nothing is decoded and nothing fails:
\* parsing ends with no bitmap if the sequence's position is its
\* next_seq_offset, and goes on with the next sequence otherwise.
C22_MissingPartIsNoFailure ==
    [][(component = "vob" /\ pc = "commands" /\ read_u8(args, reader) = Some(255)) =>
          /\ pc' = "even" => AllFourSet
          /\ ~AllFourSet =>
               /\ pc' # "panicked"
               /\ returned' = None
               /\ pc' = IF sequence[1].current_sequence_position
                            = sequence[1].next_seq_position
                        THEN "done" ELSE "sequence"]_vars

\* Nibble k after the reader's position in the field being decoded.
Nibble(k) == read_u4(FieldData, nibble_reader + k)[1]

\* The code at the reader's position by the nibble grammar: its value and
\* whether it is a fill of the rest of the line.
GrammarCode ==
    CASE Nibble(0) >= 4 -> [value |-> Nibble(0), fill |-> FALSE]
      [] Nibble(0) >= 1 -> [value |-> Nibble(0) * 16 + Nibble(1), fill |-> FALSE]
      [] Nibble(1) >= 4 -> [value |-> Nibble(1) * 16 + Nibble(2), fill |-> FALSE]
      [] Nibble(1) >= 1 -> [value |-> Nibble(1) * 256 + Nibble(2) * 16 + Nibble(3),
                            fill |-> FALSE]
      [] OTHER          -> [value |-> Nibble(3), fill |-> TRUE]

\* C23: the field decoder reads each code by the nibble grammar (4..F: 4-bit
\* value; 1..3: 8-bit; 0 then 4..F: 12-bit; 0 then 1..3: 16-bit; 0,0,0,x:
\* fill the rest of the line) and for a value v emits exactly v >> 2 pixels,
\* or width - (pixels so far mod width) for a fill, of the colour
\* subpalette[3 - (v & 3)]; so a row that is one run (c, width) is a row of
\* subpalette[3 - c].
C23_NibbleGrammar ==
    [][(component = "vob" /\ pc \in {"even", "odd"} /\ pc' = pc) =>
          LET width == sequence[1].size[1][1]
              count == IF GrammarCode.fill THEN width - (Len(field_pixels) % width)
                       ELSE GrammarCode.value \div 4
              colour == sequence[1].palette[3 - (GrammarCode.value % 4) + 1]
          IN /\ count >= 1
             /\ field_pixels' = field_pixels \o [i \in 1..count |-> colour]]_vars

\* A row of five pixels of subpalette[2] decoded from the 8-bit code 0x15,
\* the run (1, 5) of a picture of width 5.
C23_Witness ==
    /\ component = "vob" /\ pc = "even"
    /\ sequence[1].size[1][1] = 5
    /\ nibble_reader = 2
    /\ field_pixels = [i \in 1..5 |-> sequence[1].palette[3]]

\* C24: in the field decoder the nibble reader is on a byte boundary at the
\* start of every line: whenever the pixel count is a multiple of the width,
\* also after a fill of the rest of a line, an odd reader position has been
\* advanced by one nibble and an even one left as it was.
C24_LinesStartOnByteBoundary ==
    (component = "vob" /\ pc \in {"even", "odd"}
     /\ Len(field_pixels) % sequence[1].size[1][1] = 0) => nibble_reader % 2 = 0

\* A line of width 2 ended by a fill code read from an odd position: the run
\* of one pixel of 0x40, then 0,0,0,x, five nibbles in all, and the reader
\* at the start of the fourth byte.
C24_Witness ==
    /\ component = "vob" /\ pc = "even"
    /\ sequence[1].size[1][1] = 2
    /\ Len(FieldData) = 3 /\ FieldData[1] = 64 /\ FieldData[2] = 0
    /\ Len(field_pixels) = 2
    /\ nibble_reader = 6

\* A step of the block decode moves on: a sequence header or a command moves
\* the reader forward, a turn of the field decoder that goes on has read at
\* least one nibble and pushed at least one pixel.
DecodeAdvances ==
    component = "vob" =>
        /\ (pc \in {"sequence", "commands"} /\ pc' # "panicked") => reader' > reader
        /\ (pc \in {"even", "odd"} /\ pc' = pc) =>
              /\ nibble_reader' > nibble_reader
              /\ Len(field_pixels') > Len(field_pixels)

\* C30: the VOB decode of one block always halts: every turn of the loop of
\* decode_image reads at least one nibble and every code pushes at least one
\* pixel, the read position of decode_block grows with every command and
\* every command sequence, and so the decode ends with a bitmap, with no
\* bitmap or with a failure.
C30_DecodeHalts ==
    /\ [][DecodeAdvances]_vars
    /\ <>(component = "vob" /\ pc \in {"done", "panicked"})

\* A block decoded to a bitmap from its second command sequence, the first
\* one having no image data.
C30_Witness ==
    /\ component = "vob" /\ pc = "done"
    /\ returned # None
    /\ sequence[1].current_sequence_position > read_u16(args, 2)[1]

(***************************************************************************)
(* Claims about the idx text                                               *)
(***************************************************************************)

\* Has the idx text a line of the given name that the loop reads?
HasLine(idx_lines, name) ==
    \E i \in 1..Len(idx_lines) :
        /\ ~(idx_lines[i] # <<>> /\ idx_lines[i][1] = 35)
        /\ split_once(idx_lines[i], 58) # None
        /\ split_once(idx_lines[i], 58)[1][1] = name

\* C26: every VOB encoding the idx parser produces has a palette of exactly 16
\* colours, each with alpha 255, and comes from a text with a size line and a
\* palette line.
C26_PaletteOfSixteen ==
    (component = "idx" /\ pc = "done" /\ returned[1].tag = "VOB") =>
        /\ Len(returned[1].palette) = 16
        /\ \A i \in 1..Len(returned[1].palette) : returned[1].palette[i].A = 255
        /\ HasLine(args, SizeName)
        /\ HasLine(args, PaletteName)

\* The chunks of a reference file, and the chunks without those that are not
\* empty and have fewer than three lines.
ChunksOf(data) == split(replace(data, CRLF, LF), <<10, 10>>)
WithoutShortChunks(pieces) ==
    SelectSeq(pieces, LAMBDA piece : piece = <<>> \/ Len(splitn(3, piece, LF)) = 3)

\* C27: parse_n_subtitles returns a list for every file content: a non-empty
\* chunk of fewer than three lines (an index and a timecode without text, the
\* lone newline after an extra blank line at the end) adds no string and does
\* not make the reader fail.
C27_ShortChunkIsSkipped ==
    (component = "srt" /\ pc # "start") =>
        /\ pc = "done"
        /\ collected = ParseChunks(WithoutShortChunks(ChunksOf(srt_data)), 1, <<>>,
                                   num_subtitles).subtitles

\* The distance compute_distances emitted for input i and reference j.
Emitted(i, j) ==
    LET matches == distances[subtitles[i][1]]
        k == CHOOSE k \in 1..Len(matches) : matches[k][1] = ref_subtitles[j][1]
    IN matches[k][2]

Matching(request) ==
    { i \in 1..Len(args) :
        IF request.by = "language" THEN args[i].language = request.wanted
        ELSE args[i].track_number = request.wanted }
LastMatching(request) ==
    CHOOSE i \in Matching(request) : \A j \in Matching(request) : j <= i

\* C29: when several subtitle tracks match the requested language or track
\* number, subtitle_iter and block_iter take the last matching track in
\* discovery order; the encoding is looked at on that track only, so no
\* earlier matching track is used even when the chosen one gives no iterator.
C29_LastMatchingTrack ==
    (component = "select" /\ pc # "start") =>
        LET request == returned[1]
            chosen == args[LastMatching(request)]
        IN IF Matching(request) = {} THEN request.track = None
           ELSE IF pc = "block_iter" THEN request.track = Some(chosen.track_number)
           ELSE IF chosen.encoding = "PGS" THEN request.track = Some(chosen)
           ELSE request.track = None

\* C29 witness: two English tracks, the first PGS and the last of another
\* encoding; subtitle_iter gives no iterator.
C29_Witness ==
    /\ component = "select" /\ pc = "subtitle_iter"
    /\ returned[1].by = "language" /\ returned[1].wanted = "English"
    /\ Len(args) = 2
    /\ args[1].language = "English" /\ args[1].encoding = "PGS"
    /\ args[2].language = "English" /\ args[2].encoding = "Other"
    /\ returned[1].track = None

====
